---------------------------- MODULE Spec2Model ----------------------------
(***************************************************************************)
(* Collision detection and movement resolution of hot_chickens.            *)
(*                                                                         *)
(* Part I models the pure functions of src/src/collision.rs.  Real numbers *)
(* are exact rationals: a vec4 is a 4-tuple of integers, and a computed    *)
(* point is a record [n |-> 4-tuple, d |-> positive integer] standing for  *)
(* n/d.  The f32 rounding of the division is therefore not part of the     *)
(* model; comparisons against zero are the exact ones the code makes.      *)
(*                                                                         *)
(* Part II models the per-frame player/camera update that is written       *)
(* inline in main() of src/src/main.rs.  Lengths there are integers in     *)
(* centimetres, velocities in m/s, and a frame lasts a whole number of     *)
(* 1/20 s steps, so that velocity * delta_time and gravity * delta_time    *)
(* are integers.                                                           *)
(***************************************************************************)
EXTENDS Integers, Sequences, FiniteSets, TLC

VARIABLES
    g_fn,                   \* the collision.rs function under test
    g_plane,                \* its Plane argument
    g_segment,              \* its LineSegment argument
    g_planes,               \* its &[Plane] argument
    g_test,                 \* its 2-D test point
    g_tri,                  \* its three 2-D triangle vertices
    g_arg,                  \* the arguments of the other functions, by name
    terrain,                \* the Terrain main() loaded
    g_done,                 \* whether the call has been made
    g_ret,                  \* what it returned
    pc,                     \* the place of main()'s loop body that runs next
    tri,                    \* i of the terrain loop
    delta_time,             \* this frame's delta_time, in 1/20 s
    tracking_position,      \* player.tracking_position, cm
    tracking_velocity,      \* player.tracking_velocity, m/s
    tracked_segment,        \* player.tracked_segment
    last_tracked_segment,   \* player.last_tracked_segment
    movement_state,         \* player.movement_state
    jumps_remaining,        \* player.jumps_remaining
    was_holding_jump,       \* player.was_holding_jump
    camera_position,        \* camera_position, cm
    last_camera_position,   \* last_camera_position
    camera_speed,           \* camera_speed, m/s
    camera_input,           \* camera_input, the sum of the directions of the keys held
    camera_collision,       \* camera_collision, the "Camera collision" checkbox
    do_imgui,               \* do_imgui, whether the hacking window is drawn
    xr_instance,            \* "Some" with an OpenXR instance (HMD), "None" without
    keys_held,              \* the keys and mouse buttons the user holds down
    mouselook_enabled,      \* mouselook_enabled
    camera_orientation,     \* camera_orientation: <<yaw, pitch>>, in 1/1000 rad
    view_from_world,        \* the rotation of screen_state's view: its <<yaw, pitch>>
    jump_trigger,           \* whether the user triggered a jump this frame
    obs,                    \* what happened in this frame so far
    listener_velocity       \* the last SetListenerVelocity sent to the audio thread

geomVars ==
    <<g_fn, g_plane, g_segment, g_planes, g_test, g_tri, g_arg, terrain, g_done, g_ret>>

playerVars ==
    <<tracking_position, tracking_velocity, tracked_segment, last_tracked_segment,
      movement_state, jumps_remaining, was_holding_jump>>

cameraVars ==
    <<camera_position, last_camera_position, camera_speed, camera_input, camera_collision,
      do_imgui, xr_instance, keys_held, mouselook_enabled, camera_orientation,
      view_from_world>>

frameVars == <<pc, tri, delta_time, jump_trigger, obs, listener_velocity>>

vars == <<geomVars, playerVars, cameraVars, frameVars>>

---------------------------------------------------------------------------
(* Bounds of the inputs.                                                   *)

MaxCoord == 1
MaxPlanes == 2
MaxTallZ == 6
MaxTri == 2

---------------------------------------------------------------------------
(* Vector arithmetic of nalgebra_glm on 4-tuples of integers.              *)

Dot4(u, v) == u[1] * v[1] + u[2] * v[2] + u[3] * v[3] + u[4] * v[4]

Sub4(u, v) == <<u[1] - v[1], u[2] - v[2], u[3] - v[3], u[4] - v[4]>>

Add4(u, v) == <<u[1] + v[1], u[2] + v[2], u[3] + v[3], u[4] + v[4]>>

Scale4(k, u) == <<k * u[1], k * u[2], k * u[3], k * u[4]>>

Abs(x) == IF x < 0 THEN -x ELSE x

Sgn(x) == IF x < 0 THEN -1 ELSE IF x > 0 THEN 1 ELSE 0

Zero4 == <<0, 0, 0, 0>>

(* Option<TVec4<f32>>: None, or Some of the rational point n/d.            *)
NonePoint == [some |-> FALSE, n |-> Zero4, d |-> 1]

SomePoint(n, d) == [some |-> TRUE, n |-> n, d |-> d]

Plane(point, normal) == [point |-> point, normal |-> normal]

LineSegment(p0, p1) == [p0 |-> p0, p1 |-> p1]

(* f32::sqrt(n) of a whole n >= 0, kept as the number whose square it is.  *)
(* It is zero exactly when n is.                                           *)
SqrtOf(n) == [squared |-> n]

(* LineSegment::length                                                     *)
length(self) ==
    SqrtOf((self.p1[1] - self.p0[1]) * (self.p1[1] - self.p0[1])
           + (self.p1[2] - self.p0[2]) * (self.p1[2] - self.p0[2]))

---------------------------------------------------------------------------
(* collision.rs                                                            *)

(* segment_hit_plane with the start point accepted too (x >= 0).           *)
segment_hit_plane_closed(plane, segment) ==
    LET denominator == Dot4(plane.normal, Sub4(segment.p1, segment.p0))
        numerator == Dot4(plane.normal, Sub4(plane.point, segment.p0))
        d == Abs(denominator)
        xn == Sgn(denominator) * numerator
    IN  IF denominator # 0
        THEN IF xn >= 0 /\ xn <= d
             THEN LET result == Add4(Scale4(d - xn, segment.p0), Scale4(xn, segment.p1))
                  IN  SomePoint(<<result[1], result[2], result[3], d>>, d)
             ELSE NonePoint
        ELSE NonePoint

(* segment_hit_plane without the divide-by-zero check: with a zero         *)
(* denominator x is not a finite number in (0, 1], yet a point comes back. *)
segment_hit_plane_unguarded(plane, segment) ==
    LET denominator == Dot4(plane.normal, Sub4(segment.p1, segment.p0))
        numerator == Dot4(plane.normal, Sub4(plane.point, segment.p0))
        d == Abs(denominator)
        xn == Sgn(denominator) * numerator
    IN  IF denominator = 0
        THEN SomePoint(<<segment.p0[1], segment.p0[2], segment.p0[3], 1>>, 1)
        ELSE IF xn > 0 /\ xn <= d
             THEN LET result == Add4(Scale4(d - xn, segment.p0), Scale4(xn, segment.p1))
                  IN  SomePoint(<<result[1], result[2], result[3], d>>, d)
             ELSE NonePoint

(* segment_hit_plane with the interval closed at the start of the segment  *)
(* and open at its end: 0 <= x < 1.                                        *)
segment_hit_plane_from_start(plane, segment) ==
    LET denominator == Dot4(plane.normal, Sub4(segment.p1, segment.p0))
        numerator == Dot4(plane.normal, Sub4(plane.point, segment.p0))
        d == Abs(denominator)
        xn == Sgn(denominator) * numerator
    IN  IF denominator # 0
        THEN IF xn >= 0 /\ xn < d
             THEN LET result == Add4(Scale4(d - xn, segment.p0), Scale4(xn, segment.p1))
                  IN  SomePoint(<<result[1], result[2], result[3], d>>, d)
             ELSE NonePoint
        ELSE NonePoint

(* x = numerator / denominator is kept as the fraction xn / d with d > 0;  *)
(* result = (1 - x) * p0 + x * p1 is then ((d - xn) * p0 + xn * p1) / d,   *)
(* and its w component is overwritten with 1.0 (= d / d).                  *)
segment_hit_plane(plane, segment) ==
    LET denominator == Dot4(plane.normal, Sub4(segment.p1, segment.p0))
        numerator == Dot4(plane.normal, Sub4(plane.point, segment.p0))
        d == Abs(denominator)
        xn == Sgn(denominator) * numerator
    IN  IF denominator # 0
        THEN IF xn > 0 /\ xn <= d
             THEN LET result == Add4(Scale4(d - xn, segment.p0), Scale4(xn, segment.p1))
                  IN  SomePoint(<<result[1], result[2], result[3], d>>, d)
             ELSE NonePoint
        ELSE NonePoint

PlaneBoundaries(xmin, xmax, ymin, ymax) ==
    [xmin |-> xmin, xmax |-> xmax, ymin |-> ymin, ymax |-> ymax]

(* segment_hit_bounded_plane that keeps a point lying on a bound.          *)
segment_hit_bounded_plane_closed(plane, segment, boundaries) ==
    LET point == segment_hit_plane(plane, segment)
        on_aabb == /\ point.n[1] >= boundaries.xmin * point.d
                   /\ point.n[1] <= boundaries.xmax * point.d
                   /\ point.n[2] >= boundaries.ymin * point.d
                   /\ point.n[2] <= boundaries.ymax * point.d
    IN  IF point.some THEN IF on_aabb THEN point ELSE NonePoint
        ELSE NonePoint

(* The comparisons are made on the rational point n/d, d > 0: x > xmin is  *)
(* n[1] > xmin * d.                                                        *)
segment_hit_bounded_plane(plane, segment, boundaries) ==
    LET point == segment_hit_plane(plane, segment)
        on_aabb == /\ point.n[1] > boundaries.xmin * point.d
                   /\ point.n[1] < boundaries.xmax * point.d
                   /\ point.n[2] > boundaries.ymin * point.d
                   /\ point.n[2] < boundaries.ymax * point.d
    IN  IF point.some THEN IF on_aabb THEN point ELSE NonePoint
        ELSE NonePoint

(* point_plane_distance of the rational point n/d, times d.                *)
point_plane_distance(point, plane) ==
    Dot4(plane.normal, Sub4(point.n, Scale4(point.d, plane.point)))

(* Option<Plane>: None, or Some plane whose point is the rational n/d.     *)
NonePlane == [some |-> FALSE, point |-> [n |-> Zero4, d |-> 1], normal |-> Zero4]

SomePlane(point, normal) == [some |-> TRUE, point |-> point, normal |-> normal]

(* point.z > max_height, where max_height is -infinity until a collision   *)
(* has been recorded and the z of the recorded collision afterwards.       *)
HigherThan(point, collision) ==
    \/ ~collision.some
    \/ point.n[3] * collision.point.d > collision.point.n[3] * point.d

(* The loop of segment_plane_tallest_collision that keeps the lowest hit.  *)
RECURSIVE tallest_loop_lowest(_, _, _, _)
tallest_loop_lowest(segment, planes, i, collision) ==
    IF i > Len(planes) THEN collision
    ELSE LET hit == segment_hit_plane(planes[i], segment)
         IN  IF hit.some /\ (~collision.some
                             \/ hit.n[3] * collision.point.d < collision.point.n[3] * hit.d)
             THEN tallest_loop_lowest(segment, planes, i + 1,
                                      SomePlane([n |-> hit.n, d |-> hit.d], planes[i].normal))
             ELSE tallest_loop_lowest(segment, planes, i + 1, collision)

segment_plane_lowest_collision(segment, planes) ==
    tallest_loop_lowest(segment, planes, 1, NonePlane)

(* The for loop of segment_plane_tallest_collision from plane i on.        *)
RECURSIVE tallest_loop(_, _, _, _)
tallest_loop(segment, planes, i, collision) ==
    IF i > Len(planes) THEN collision
    ELSE LET hit == segment_hit_plane(planes[i], segment)
         IN  IF hit.some /\ HigherThan(hit, collision)
             THEN tallest_loop(segment, planes, i + 1,
                               SomePlane([n |-> hit.n, d |-> hit.d], planes[i].normal))
             ELSE tallest_loop(segment, planes, i + 1, collision)

segment_plane_tallest_collision(segment, planes) ==
    tallest_loop(segment, planes, 1, NonePlane)

(* AABB and PlaneBoundaries.                                               *)
AABB(position, width, depth, height) ==
    [position |-> position, width |-> width, depth |-> depth, height |-> height]

PlaneBoundariesOf(aabb) ==
    [ xmin |-> -aabb.width + aabb.position[1],
      xmax |-> aabb.width + aabb.position[1],
      ymin |-> -aabb.depth + aabb.position[2],
      ymax |-> aabb.depth + aabb.position[2] ]

aabb_get_top_plane(aabb) ==
    LET pos == [aabb.position EXCEPT ![3] = @ + aabb.height * 2]
    IN  [ plane |-> Plane(pos, <<0, 0, 1, 0>>),
          boundaries |-> PlaneBoundariesOf(aabb) ]

aabb_get_bottom_plane(aabb) ==
    [ plane |-> Plane(aabb.position, <<0, 0, -1, 0>>),
      boundaries |-> PlaneBoundariesOf(aabb) ]

(* sign on 2-D points <<x, y>>.                                            *)
sign(test, p0, p1) ==
    (test[1] - p1[1]) * (p0[2] - p1[2]) - (p0[1] - p1[1]) * (test[2] - p1[2])

(* point_in_triangle that accepts one winding only (!has_neg).             *)
point_in_triangle_one_winding(test_point, p0, p1, p2) ==
    LET d1 == sign(test_point, p0, p1)
        d2 == sign(test_point, p1, p2)
        d3 == sign(test_point, p2, p0)
        has_neg == d1 < 0 \/ d2 < 0 \/ d3 < 0
    IN  ~has_neg

(* The test with a point on an edge line counted as outside.               *)
point_in_triangle_open(test_point, p0, p1, p2) ==
    LET d1 == sign(test_point, p0, p1)
        d2 == sign(test_point, p1, p2)
        d3 == sign(test_point, p2, p0)
    IN  \/ d1 < 0 /\ d2 < 0 /\ d3 < 0
        \/ d1 > 0 /\ d2 > 0 /\ d3 > 0

point_in_triangle(test_point, p0, p1, p2) ==
    LET d1 == sign(test_point, p0, p1)
        d2 == sign(test_point, p1, p2)
        d3 == sign(test_point, p2, p0)
        has_neg == d1 < 0 \/ d2 < 0 \/ d3 < 0
        has_pos == d1 > 0 \/ d2 > 0 \/ d3 > 0
    IN  ~(has_neg /\ has_pos)

---------------------------------------------------------------------------
(* Part II: the frame of main().  Numbers and vectors.                     *)

Add3(u, v) == <<u[1] + v[1], u[2] + v[2], u[3] + v[3]>>

Sub3(u, v) == <<u[1] - v[1], u[2] - v[2], u[3] - v[3]>>

Scale3(k, u) == <<k * u[1], k * u[2], k * u[3]>>

Dot3(u, v) == u[1] * v[1] + u[2] * v[2] + u[3] * v[3]

Zero3 == <<0, 0, 0>>

Z_UP == <<0, 0, 1>>

(* a / b rounded to the nearest integer, b > 0: the rounding of an f32     *)
(* division to the centimetre grid.                                        *)
RoundDiv(a, b) == (2 * a + b) \div (2 * b)

(* The element of a set of one element.  Where an intermediate result is  *)
(* used more than once it is named by x \in {e}, which computes e once.    *)
The(S) == CHOOSE x \in S : TRUE

RECURSIVE IsqrtBetween(_, _, _)
IsqrtBetween(n, lo, hi) ==
    IF lo >= hi THEN lo
    ELSE The({ IF mid * mid <= n THEN IsqrtBetween(n, mid, hi)
               ELSE IsqrtBetween(n, lo, mid - 1) :
               mid \in {(lo + hi + 1) \div 2} })

(* The integer part of the square root of n, 0 <= n < 2^31.                *)
Isqrt(n) == The({IsqrtBetween(m, 0, 46340) : m \in {n}})

(* A vector whose components are NaN: what normalizing the zero vector     *)
(* gives, and every sum with it.  It is the only vector of four entries.   *)
NaN3 == <<0, 0, 0, 0>>

IsNaN(v) == Len(v) = 4

(* Centimetres moved in one 1/20 s step at 1 m/s.                          *)
CmPerStep == 100 \div 20

---------------------------------------------------------------------------
(* Program constants, in the model's units.                                *)

PlayerRadius == 15
CameraHitSphereRadius == 50
SpawnHeight == 300
GRAVITY_VELOCITY_CAP == 10
ACCELERATION_GRAVITY == 20
MAX_JUMPS == 2
CameraStartY == -800
CameraStartZ == 550
CAMERA_SPEED == 5

(* Angles are in 1/1000 rad: glm::pi(), the pitch -half_pi * 0.6 the       *)
(* camera starts with, and CAMERA_SENSITIVITY_DAMPENING = 0.002 rad per    *)
(* pixel.                                                                  *)
Pi == 3142
CameraStartPitch == -942
CAMERA_SENSITIVITY_DAMPENING == 2

(* Sines and cosines are integers over this denominator.                   *)
TrigDen == 10000

(* cos and sin of the angles the model turns the camera to: 0, pi and the  *)
(* starting pitch, 0.3 pi.                                                 *)
CosTable == [a \in {0, -CameraStartPitch, Pi} |->
                IF a = 0 THEN TrigDen ELSE IF a = Pi THEN -TrigDen ELSE 5878]

SinTable == [a \in {0, -CameraStartPitch, Pi} |->
                IF a = 0 THEN 0 ELSE IF a = Pi THEN 0 ELSE 8090]

Cos(a) == CosTable[Abs(a)]

Sin(a) == IF a < 0 THEN -SinTable[-a] ELSE SinTable[a]

(* glm::identity() as a view: the rotation of yaw 0 and pitch 0.           *)
IdentityView == <<0, 0>>

(* affine_inverse(view_from_world) * vec3_to_vec4(direction), for the view *)
(* rotation(pitch, x) * rotation(yaw, Z_UP) * translation: the direction   *)
(* has w = 0, so the translation does not act on it, and the inverse of    *)
(* the rotation is rotation(-yaw, Z_UP) * rotation(-pitch, x).  The result *)
(* is over TrigDen.                                                        *)
WorldFromView(view, direction) ==
    LET cy == Cos(view[1])
        sy == Sin(view[1])
        cp == Cos(view[2])
        sp == Sin(view[2])
        v  == << TrigDen * direction[1],
                 cp * direction[2] + sp * direction[3],
                 cp * direction[3] - sp * direction[2] >>
    IN  << RoundDiv(cy * v[1] + sy * v[2], TrigDen),
           RoundDiv(cy * v[2] - sy * v[1], TrigDen),
           v[3] >>

(* Face normals are stored as integer vectors over this denominator.       *)
NormalDen == 10

(* MIN_NORMAL_LIKENESS = 0.5: n / den >= 0.5.                              *)
AtLeastMinNormalLikeness(n, den) == 2 * n >= den

---------------------------------------------------------------------------
(* Bounds of the frame inputs and of the space the model follows.          *)

HeadHeight == 160
MaxWalk == 45
MaxDepth == 120
MaxCameraX == 125
MaxCameraDepth == 100

---------------------------------------------------------------------------
(* Terrain::from_ozt.  A file is its sequence of bytes; a read cursor pos  *)
(* counts the bytes already consumed.  An f32 is its IEEE-754 fields, as   *)
(* the four bytes give them.  A panic leaves no Terrain: NoTerrain.        *)

F32(s, e, m) == [sign |-> s, exponent |-> e, mantissa |-> m]

(* The four bytes read with the most significant first.                    *)
f32_from_be_bytes(b) ==
    F32(b[1] \div 128,
        (b[1] % 128) * 2 + b[2] \div 128,
        (b[2] % 128) * 65536 + b[3] * 256 + b[4])

(* f32::from_le_bytes: b[4] holds the sign and the high exponent bits.     *)
f32_from_le_bytes(b) ==
    F32(b[4] \div 128,
        (b[4] % 128) * 2 + b[3] \div 128,
        (b[3] % 128) * 65536 + b[2] * 256 + b[1])

(* io::read_u32: the next four bytes as a little-endian u32, None at the   *)
(* end of the file.  (A count of 2^31 or more is not among the inputs.)    *)
read_u32(file, pos) ==
    IF pos + 4 > Len(file) THEN [some |-> FALSE, value |-> 0]
    ELSE [ some |-> TRUE,
           value |-> file[pos + 1] + 256 * file[pos + 2] + 65536 * file[pos + 3]
                       + 16777216 * file[pos + 4] ]

(* io::read_u16_data: count little-endian u16, None when the file is short.*)
read_u16_data(file, pos, count) ==
    IF pos + 2 * count > Len(file) THEN [some |-> FALSE, data |-> <<>>]
    ELSE [ some |-> TRUE,
           data |-> [ k \in 1..count |->
                        file[pos + 2 * k - 1] + 256 * file[pos + 2 * k] ] ]

NoTerrain == [ok |-> FALSE]

ByteStep == 12

(* The x, y and z of the vec3 whose first byte follows the cursor at.      *)
ReadVec3(file, at) ==
    << f32_from_le_bytes(<<file[at + 1], file[at + 2], file[at + 3], file[at + 4]>>),
       f32_from_le_bytes(<<file[at + 5], file[at + 6], file[at + 7], file[at + 8]>>),
       f32_from_le_bytes(<<file[at + 9], file[at + 10], file[at + 11], file[at + 12]>>) >>

(* The vertices block and the face_normals block: a byte count, then that  *)
(* many bytes, taken twelve at a time.  read_exact fails on a short file,  *)
(* and a last chunk of fewer than twelve bytes is indexed out of range.    *)
ReadVec3Block(file, pos) ==
    The({ IF ~byte_count.some THEN [ok |-> FALSE]
          ELSE IF pos + 4 + byte_count.value > Len(file) THEN [ok |-> FALSE]
          ELSE IF byte_count.value % ByteStep # 0 THEN [ok |-> FALSE]
          ELSE [ ok |-> TRUE,
                 data |-> [ k \in 1..(byte_count.value \div ByteStep) |->
                              ReadVec3(file, pos + 4 + ByteStep * (k - 1)) ],
                 pos |-> pos + 4 + byte_count.value ] :
          byte_count \in {read_u32(file, pos)} })

(* The indices block: a byte count, then count / 2 u16.                    *)
ReadIndexBlock(file, pos) ==
    The({ IF ~byte_count.some THEN [ok |-> FALSE]
          ELSE The({ IF ~indices.some THEN [ok |-> FALSE]
                     ELSE [ ok |-> TRUE, data |-> indices.data,
                            pos |-> pos + 4 + 2 * (byte_count.value \div 2) ] :
                     indices \in {read_u16_data(file, pos + 4, byte_count.value \div 2)} }) :
          byte_count \in {read_u32(file, pos)} })

FaceNormalsAfter(file, vertices, indices) ==
    The({ IF ~face_normals.ok THEN NoTerrain
          ELSE [ ok |-> TRUE, vertices |-> vertices.data, indices |-> indices.data,
                 face_normals |-> face_normals.data ] :
          face_normals \in {ReadVec3Block(file, indices.pos)} })

IndicesAfter(file, vertices) ==
    IF ~vertices.ok THEN NoTerrain
    ELSE The({ IF ~indices.ok THEN NoTerrain
               ELSE FaceNormalsAfter(file, vertices, indices) :
               indices \in {ReadIndexBlock(file, vertices.pos)} })

from_ozt(file) ==
    The({ IndicesAfter(file, vertices) : vertices \in {ReadVec3Block(file, 0)} })

---------------------------------------------------------------------------
(* The level: a wall triangle at x = 40 whose normal points to -x, and a   *)
(* floor triangle at z = 0.  Indices are the u16 of the file, so vertex k  *)
(* is vertices[k + 1].                                                     *)

Terrain ==
    [ vertices |-> << <<-50, -50, 0>>, <<100, -50, 0>>, <<-50, 100, 0>>,
                      <<40, -60, 0>>, <<40, 60, 0>>, <<40, 0, 120>> >>,
      indices |-> <<3, 4, 5, 0, 1, 2>>,
      face_normals |-> << <<-NormalDen, 0, 0>>, <<0, 0, NormalDen>> >> ]

(* A level of two coplanar floor triangles at z = 0 that share the edge    *)
(* from (0, -60, 0) to (0, 60, 0), below the place where the player        *)
(* starts.                                                                 *)
TwoFloors ==
    [ vertices |-> << <<0, -60, 0>>, <<0, 60, 0>>, <<-60, 0, 0>>, <<60, 0, 0>> >>,
      indices |-> <<0, 1, 2, 0, 3, 1>>,
      face_normals |-> << <<0, 0, NormalDen>>, <<0, 0, NormalDen>> >> ]

(* get_terrain_triangle as main() uses it: the three vertices and the face *)
(* normal of the triangle whose first index is at offset i.                *)
get_terrain_triangle(terr, i) ==
    [ a |-> terr.vertices[terr.indices[i + 1] + 1],
      b |-> terr.vertices[terr.indices[i + 2] + 1],
      c |-> terr.vertices[terr.indices[i + 3] + 1],
      normal |-> terr.face_normals[(i \div 3) + 1] ]

---------------------------------------------------------------------------
(* ray_hit_terrain of collision.rs.  t is kept as the fraction n / d with  *)
(* d > 0 and f32::INFINITY as 1 / 0; the intersection is the rational      *)
(* point n / d as above.  index is the offset i of the pass of the loop    *)
(* that assigned closest_intersection.                                     *)

Infinity == [n |-> 1, d |-> 0]

NoIntersection ==
    [some |-> FALSE, n |-> Zero4, d |-> 1, t |-> Infinity, index |-> -1]

(* The pair of coordinates handed to point_in_triangle: x and y when the   *)
(* z of the normal is above glm::epsilon (which is below the least         *)
(* positive z of the normals here), else x and z.                          *)
RayTestAxes(plane) ==
    IF Dot4(plane.normal, <<0, 0, 1, 0>>) > 0 THEN <<1, 2>> ELSE <<1, 3>>

(* The body of the loop up to the test: whether the ray is parallel, t,    *)
(* the intersection and the outcome of point_in_triangle, which is made on *)
(* the coordinates times d.                                                *)
RayHitPlaneOf(triangle, plane, ray_origin, ray_direction) ==
    The({ The({ The({
        [ parallel |-> denominator = 0,
          t |-> [n |-> tn, d |-> Abs(denominator)],
          intersection |-> [n |-> intersection, d |-> Abs(denominator)],
          inside |-> point_in_triangle(
                        <<intersection[axes[1]], intersection[axes[2]]>>,
                        <<Abs(denominator) * triangle.a[axes[1]], Abs(denominator) * triangle.a[axes[2]]>>,
                        <<Abs(denominator) * triangle.b[axes[1]], Abs(denominator) * triangle.b[axes[2]]>>,
                        <<Abs(denominator) * triangle.c[axes[1]], Abs(denominator) * triangle.c[axes[2]]>>) ] :
        intersection \in {Add4(Scale4(Abs(denominator), ray_origin), Scale4(tn, ray_direction))},
        axes \in {RayTestAxes(plane)} }) :
        tn \in {Sgn(denominator) * Dot4(Sub4(plane.point, ray_origin), plane.normal)} }) :
        denominator \in {Dot4(ray_direction, plane.normal)} })

RayHitTriangle(triangle, ray_origin, ray_direction) ==
    RayHitPlaneOf(triangle,
                  Plane(<<triangle.a[1], triangle.a[2], triangle.a[3], 1>>,
                        <<triangle.normal[1], triangle.normal[2], triangle.normal[3], 1>>),
                  ray_origin, ray_direction)

(* The test that also replaces the closest intersection on a tie.          *)
IsCloserOrAsClose(inside, t, smallest_t) ==
    inside /\ t.n > 0 /\ t.n * smallest_t.d <= smallest_t.n * t.d

(* point_in_triangle(..) && t > 0.0 && t < smallest_t                      *)
IsCloser(inside, t, smallest_t) ==
    inside /\ t.n > 0 /\ t.n * smallest_t.d < smallest_t.n * t.d

(* The for loop of ray_hit_terrain from offset i on.                       *)
RECURSIVE ray_loop(_, _, _, _, _)
ray_loop(terr, ray_origin, ray_direction, i, closest) ==
    IF i >= Len(terr.indices) THEN closest
    ELSE The({ ray_loop(terr, ray_origin, ray_direction, i + 3,
                        IF ~hit.parallel /\ IsCloser(hit.inside, hit.t, closest.t)
                        THEN [some |-> TRUE, n |-> hit.intersection.n,
                              d |-> hit.intersection.d, t |-> hit.t, index |-> i]
                        ELSE closest) :
               hit \in {RayHitTriangle(get_terrain_triangle(terr, i),
                                       ray_origin, ray_direction)} })

ray_hit_terrain(terr, ray_origin, ray_direction) ==
    ray_loop(terr, ray_origin, ray_direction, 0, NoIntersection)

---------------------------------------------------------------------------
(* Helpers main() calls: ray_hit_plane, projected_point_on_plane,          *)
(* robust_point_in_triangle, closest_point_on_line_segment,                *)
(* closest_point_on_triangle, tracked_player_segment.                      *)
(*                                                                         *)
(* Positions are whole centimetres; what is computed from them on the way  *)
(* to a decision (a foot of a perpendicular, a closest point, a distance)  *)
(* is kept as an exact fraction, so that every comparison of the code is   *)
(* decided on the exact values, and only the position that is stored is    *)
(* rounded to the centimetre, once.                                        *)
(* Numerators and denominators stay within 32 bits for positions within a *)
(* few metres of triangles whose edge directions have small whole          *)
(* coordinates; a product that leaves 32 bits is an evaluation error.      *)

RECURSIVE Gcd(_, _)
Gcd(a, b) == IF b = 0 THEN a ELSE Gcd(b, a % b)

(* The largest whole number that divides the three coordinates of v.       *)
Gcd3(v) == Gcd(Gcd(Abs(v[1]), Abs(v[2])), Abs(v[3]))

(* The scalar n / d, d > 0, in lowest terms.                               *)
Fraction(n, d) ==
    The({ [n |-> n \div g, d |-> d \div g] : g \in {Gcd(d, Abs(n))} })

(* f < g, on the whole parts and then on the remainders.                   *)
FracLess(f, g) ==
    \/ f.n \div f.d < g.n \div g.d
    \/ /\ f.n \div f.d = g.n \div g.d
       /\ (f.n % f.d) * g.d < (g.n % g.d) * f.d

(* The point n / d, d > 0, in lowest terms.                                *)
Rational3(n, d) ==
    The({ [n |-> <<n[1] \div g, n[2] \div g, n[3] \div g>>, d |-> d \div g] :
          g \in {Gcd(d, Gcd3(n))} })

Whole3(p) == [n |-> p, d |-> 1]

(* P - Q, over the least common denominator.                               *)
SubR(P, Q) ==
    The({ Rational3(Sub3(Scale3(l \div P.d, P.n), Scale3(l \div Q.d, Q.n)), l) :
          l \in {(P.d \div Gcd(P.d, Q.d)) * Q.d} })

DistSq(p, q) == Dot3(Sub3(p, q), Sub3(p, q))

(* glm::distance2 of two points with rational coordinates.                 *)
DistSqR(P, Q) ==
    The({ Fraction(Dot3(v.n, v.n), v.d * v.d) : v \in {SubR(P, Q)} })

(* glm::normalize of a vector along one axis, which is all the capsule's   *)
(* segment can be: tracked_player_segment goes straight up from the foot.  *)
NormalizeAxis(v) == IF v = Zero3 THEN NaN3 ELSE <<Sgn(v[1]), Sgn(v[2]), Sgn(v[3])>>

(* The intersection of the line origin + t * direction with the plane      *)
(* through a with the given normal; None when the two are parallel.        *)
ray_hit_plane(origin, direction, a, normal) ==
    LET denominator == Dot3(direction, normal)
        numerator == Dot3(Sub3(a, origin), normal)
    IN  IF denominator = 0 THEN [some |-> FALSE, point |-> Whole3(Zero3)]
        ELSE [ some |-> TRUE,
               point |-> Rational3(Add3(Scale3(Abs(denominator), origin),
                                        Scale3(Sgn(denominator) * numerator, direction)),
                                   Abs(denominator)) ]

(* The signed distance of P to the plane, normal . (P - a), and the foot   *)
(* of the perpendicular, P - normal * dist.                                *)
projected_point_on_plane(P, a, normal) ==
    The({ [ dist |-> Fraction(k, NormalDen * P.d),
            point |-> Rational3(Sub3(Scale3(NormalDen * NormalDen, P.n), Scale3(k, normal)),
                                NormalDen * NormalDen * P.d) ] :
          k \in {Dot3(normal, Sub3(P.n, Scale3(P.d, a)))} })

(* The coordinates kept by the 2-D projection: the axis along which the    *)
(* normal is largest is dropped.                                           *)
KeptAxes(normal) ==
    IF Abs(normal[3]) >= Abs(normal[1]) /\ Abs(normal[3]) >= Abs(normal[2]) THEN <<1, 2>>
    ELSE IF Abs(normal[2]) >= Abs(normal[1]) THEN <<1, 3>>
    ELSE <<2, 3>>

Project2(p, axes) == <<p[axes[1]], p[axes[2]]>>

(* d * sign(test / d, p0, p1), d > 0: sign of collision.rs for a test      *)
(* point with rational coordinates.                                        *)
SignR(test, d, p0, p1) ==
    (test[1] - d * p1[1]) * (p0[2] - p1[2]) - (p0[1] - p1[1]) * (test[2] - d * p1[2])

robust_point_in_triangle(P, triangle) ==
    LET axes == KeptAxes(triangle.normal)
        test == Project2(P.n, axes)
        a2 == Project2(triangle.a, axes)
        b2 == Project2(triangle.b, axes)
        c2 == Project2(triangle.c, axes)
        d1 == SignR(test, P.d, a2, b2)
        d2 == SignR(test, P.d, b2, c2)
        d3 == SignR(test, P.d, c2, a2)
        has_neg == d1 < 0 \/ d2 < 0 \/ d3 < 0
        has_pos == d1 > 0 \/ d2 > 0 \/ d3 > 0
    IN  ~(has_neg /\ has_pos)

(* p0 + (p1 - p0) * clamp(t, 0, 1), t = (Q - p0) . (p1 - p0) / |p1 - p0|^2,*)
(* computed on the direction d0 = (p1 - p0) / g, g the largest whole       *)
(* number that leaves d0 whole: t = s / (g * |d0|^2), s = (Q - p0) . d0.   *)
closest_point_on_line_segment(Q, p0, p1) ==
    IF p0 = p1 THEN Whole3(p0)
    ELSE The({ The({ The({ IF s <= 0 THEN Whole3(p0)
                           ELSE IF s >= g * Dot3(d0, d0) * Q.d THEN Whole3(p1)
                           ELSE Rational3(Add3(Scale3(Dot3(d0, d0) * Q.d, p0), Scale3(s, d0)),
                                          Dot3(d0, d0) * Q.d) :
                           s \in {Dot3(Sub3(Q.n, Scale3(Q.d, p0)), d0)} }) :
                     d0 \in {<< (p1[1] - p0[1]) \div g, (p1[2] - p0[2]) \div g,
                                (p1[3] - p0[3]) \div g >>} }) :
               g \in {Gcd3(Sub3(p1, p0))} })

(* A candidate for the closest point, with the square of its distance.     *)
Candidate(Q, point) == [dist_sq |-> DistSqR(Q, point), point |-> point]

(* The nearer of two candidates, the first on a tie.                       *)
Nearer(x, y) == IF FracLess(y.dist_sq, x.dist_sq) THEN y ELSE x

NearestOnEdges(Q, triangle) ==
    The({ Nearer(Nearer(on_ab, on_bc), on_ca) :
          on_ab \in {Candidate(Q, closest_point_on_line_segment(Q, triangle.a, triangle.b))},
          on_bc \in {Candidate(Q, closest_point_on_line_segment(Q, triangle.b, triangle.c))},
          on_ca \in {Candidate(Q, closest_point_on_line_segment(Q, triangle.c, triangle.a))} })

(* The nearest of the closest points on the three edges, the face left out. *)
closest_point_on_triangle_edges_only(Q, triangle) == NearestOnEdges(Q, triangle)

(* (distance, point), the distance by its square: the perpendicular foot   *)
(* when it is inside the triangle, else the nearest of the closest points  *)
(* on the three edges.                                                     *)
closest_point_on_triangle(Q, triangle) ==
    The({ IF robust_point_in_triangle(proj.point, triangle)
          THEN Candidate(Q, proj.point)
          ELSE NearestOnEdges(Q, triangle) :
          proj \in {projected_point_on_plane(Q, triangle.a, triangle.normal)} })

(* The player's foot and head in world space: the head is HeadHeight above *)
(* the tracking-space origin, the foot on its floor.                       *)
tracked_player_segment(position) ==
    [p0 |-> position, p1 |-> Add3(position, <<0, 0, HeadHeight>>)]

(* x + y for numbers whole + rem / den, 0 <= rem < den, of one den.        *)
MixedSum(x, y) ==
    [ whole |-> x.whole + y.whole + (x.rem + y.rem) \div x.den,
      rem |-> (x.rem + y.rem) % x.den,
      den |-> x.den ]

(* k * x by doubling, so that no product leaves 32 bits.                   *)
RECURSIVE MixedTimes(_, _)
MixedTimes(k, x) ==
    IF k = 0 THEN [whole |-> 0, rem |-> 0, den |-> x.den]
    ELSE The({ IF k % 2 = 1 THEN MixedSum(MixedSum(half, half), x)
               ELSE MixedSum(half, half) :
               half \in {MixedTimes(k \div 2, x)} })

(* The largest whole number that is at most k * c / sqrt(vv), for k > 0    *)
(* and 0 < c * c <= vv or c = 0: the square root is taken of the whole     *)
(* part of k * k * c * c / vv, and a negative c rounds away from zero.     *)
FloorOfScaledUnit(k, c, vv) ==
    The({ The({ IF c >= 0 THEN root
                ELSE IF root * root = square.whole /\ square.rem = 0 THEN -root
                ELSE -(root + 1) :
                root \in {Isqrt(square.whole)} }) :
          square \in {MixedTimes(k, MixedTimes(k, [whole |-> (c * c) \div vv,
                                                   rem |-> (c * c) % vv, den |-> vv]))} })

(* One coordinate of glm::normalize(v) * (radius - |v|) for v = n / d,     *)
(* which is radius * n / |n| - n / d, rounded to the nearest centimetre.   *)
PushCoordinate(c, d, vv, radius) ==
    (FloorOfScaledUnit(2 * d * radius, c, vv) - 2 * c + d) \div (2 * d)

(* glm::normalize(&offset) * (radius - best_dist), where best_dist is the  *)
(* length of offset, to the nearest centimetre; NaN for the zero vector.   *)
NormalizedTimesDepth(offset, radius) ==
    The({ IF vv = 0 THEN NaN3
          ELSE << PushCoordinate(offset.n[1], offset.d, vv, radius),
                  PushCoordinate(offset.n[2], offset.d, vv, radius),
                  PushCoordinate(offset.n[3], offset.d, vv, radius) >> :
          vv \in {Dot3(offset.n, offset.n)} })

(* normal * (radius - dist), to the nearest centimetre.                    *)
NormalTimesDepth(normal, dist, radius) ==
    << RoundDiv(normal[1] * (radius * dist.d - dist.n), NormalDen * dist.d),
       RoundDiv(normal[2] * (radius * dist.d - dist.n), NormalDen * dist.d),
       RoundDiv(normal[3] * (radius * dist.d - dist.n), NormalDen * dist.d) >>

---------------------------------------------------------------------------
(* The terrain loop body of main(), for one triangle.                      *)

Max3Scalar(a_dist, b_dist, c_dist) ==
    IF a_dist >= b_dist /\ a_dist >= c_dist THEN a_dist
    ELSE IF b_dist >= c_dist THEN b_dist
    ELSE c_dist

(* triangle_sphere, at four times the scale: focus = (a + b + 2c) / 4 and  *)
(* radius = the largest distance from it to a vertex, kept by its square.  *)
TriangleSphere4(triangle) ==
    The({ [ focus4 |-> focus4,
            radius4_sq |-> Max3Scalar(DistSq(Scale3(4, triangle.a), focus4),
                                      DistSq(Scale3(4, triangle.b), focus4),
                                      DistSq(Scale3(4, triangle.c), focus4)) ] :
          focus4 \in {Add3(Add3(triangle.a, triangle.b), Scale3(2, triangle.c))} })

(* x < k * sqrt(m) for x >= 0 and k > 0, on the whole part of x / k and    *)
(* then on the squares.                                                    *)
LessThanScaledSqrt(x, k, m) ==
    The({ IF x \div k > root THEN FALSE
          ELSE IF x \div k < root THEN TRUE
          ELSE 2 * k * root * (x % k) + (x % k) * (x % k) < k * k * (m - root * root) :
          root \in {Isqrt(m)} })

(* sqrt(dist_sq) < radius + sqrt(radius_sq), radius > 0.                   *)
SqrtLessThanSum(dist_sq, radius, radius_sq) ==
    \/ dist_sq - radius_sq - radius * radius < 0
    \/ LessThanScaledSqrt(dist_sq - radius_sq - radius * radius, 2 * radius, radius_sq)

(* glm::distance(&camera_position, &triangle_sphere.focus)                 *)
(*     < camera_hit_sphere_radius + triangle_sphere.radius                 *)
CameraNearSphere(camera, sphere) ==
    SqrtLessThanSum(DistSq(Scale3(4, camera), sphere.focus4),
                    4 * CameraHitSphereRadius, sphere.radius4_sq)

(* "Check if this triangle is hitting the camera": camera_position after   *)
(* the triangle.                                                           *)
CameraEdgeContact(camera, best) ==
    IF best.dist_sq.n < CameraHitSphereRadius * CameraHitSphereRadius * best.dist_sq.d
    THEN The({ IF IsNaN(push) THEN NaN3 ELSE Add3(camera, push) :
               push \in {NormalizedTimesDepth(SubR(Whole3(camera), best.point),
                                              CameraHitSphereRadius)} })
    ELSE camera

CameraAfterTriangle(collision, camera, triangle) ==
    IF IsNaN(camera) \/ ~collision THEN camera
    ELSE IF ~CameraNearSphere(camera, TriangleSphere4(triangle)) THEN camera
    ELSE The({
        IF robust_point_in_triangle(proj.point, triangle)
           /\ Abs(proj.dist.n) < CameraHitSphereRadius * proj.dist.d
        THEN Add3(camera, NormalTimesDepth(triangle.normal, proj.dist, CameraHitSphereRadius))
        ELSE CameraEdgeContact(camera, closest_point_on_triangle(Whole3(camera), triangle)) :
        proj \in {projected_point_on_plane(Whole3(camera), triangle.a, triangle.normal)} })

(* The capsule of the player, from tracked_segment.                        *)
PlayerCapsule(segment) ==
    [p0 |-> segment.p0, p1 |-> Add3(segment.p1, <<0, 0, PlayerRadius>>)]

(* The point of the capsule's segment that is the focus of the sphere      *)
(* tested against the triangle.                                            *)
RefPoint(hit, triangle) ==
    IF hit.some
    THEN IF robust_point_in_triangle(hit.point, triangle) THEN hit.point
         ELSE closest_point_on_triangle(hit.point, triangle).point
    ELSE Whole3(triangle.a)

CapsuleRef(segment, triangle) ==
    The({ The({ The({ closest_point_on_line_segment(ref_point, capsule.p0, capsule.p1) :
                      ref_point \in {RefPoint(hit, triangle)} }) :
                hit \in {ray_hit_plane(capsule.p0,
                                       NormalizeAxis(Sub3(capsule.p1, capsule.p0)),
                                       triangle.a, triangle.normal)} }) :
          capsule \in {PlayerCapsule(segment)} })

(* The face test that leaves a sphere centred on the plane to the edge     *)
(* branch.                                                                 *)
FaceContactAtOffPlane(proj, triangle) ==
    /\ robust_point_in_triangle(proj.point, triangle)
    /\ proj.dist.n # 0
    /\ Abs(proj.dist.n) < PlayerRadius * proj.dist.d

(* Whether the sphere at capsule_ref collides with the face of the         *)
(* triangle (else its edges are tried).                                    *)
FaceContactAt(proj, triangle) ==
    /\ robust_point_in_triangle(proj.point, triangle)
    /\ Abs(proj.dist.n) < PlayerRadius * proj.dist.d

FaceContact(segment, triangle) ==
    \E proj \in {projected_point_on_plane(CapsuleRef(segment, triangle),
                                          triangle.a, triangle.normal)} :
        FaceContactAt(proj, triangle)

(* glm::dot(&triangle.normal, &Z_UP) >= MIN_NORMAL_LIKENESS                *)
FloorLike(triangle) == AtLeastMinNormalLikeness(Dot3(triangle.normal, Z_UP), NormalDen)

(* dot(normalize(v), Z_UP) >= MIN_NORMAL_LIKENESS, decided on squares:     *)
(* v.z > 0 and 4 v.z^2 >= |v|^2.                                           *)
PushIsFloorLike(v) == v[3] > 0 /\ 3 * v[3] * v[3] >= v[1] * v[1] + v[2] * v[2]

PlusVec(position, v) == IF IsNaN(position) \/ IsNaN(v) THEN NaN3 ELSE Add3(position, v)

(* t = (dot(normal, a - capsule_ref) + lift) / dot(normal, Z_UP), for a    *)
(* normal with dot(normal, Z_UP) > 0.                                      *)
FloorLift(capsule_ref, triangle, lift) ==
    Fraction(Dot3(triangle.normal, Sub3(Scale3(capsule_ref.d, triangle.a), capsule_ref.n))
             + lift * NormalDen * capsule_ref.d,
             Dot3(triangle.normal, Z_UP) * capsule_ref.d)

(* tracking_position += Z_UP * t, to the nearest centimetre; t is kept     *)
(* beside the position it was rounded into.                                *)
LiftedBy(p, t) ==
    [ position |-> PlusVec(p.position, Scale3(RoundDiv(t.n, t.d), Z_UP)),
      velocity |-> Zero3,
      jumps |-> MAX_JUMPS,
      branch |-> "floor",
      t |-> t ]

(* The floor branch that puts capsule_ref on the plane, not a radius above *)
(* it.                                                                     *)
PlayerFloorContactToPlane(p, capsule_ref, triangle) ==
    LiftedBy(p, FloorLift(capsule_ref, triangle, 0))

(* Face contact with a floor-like triangle.                                *)
PlayerFloorContact(p, capsule_ref, triangle) ==
    LiftedBy(p, FloorLift(capsule_ref, triangle, PlayerRadius))

(* The wall branch treated like a landing: velocity zeroed, jumps reset.   *)
PlayerWallContactAsLanding(p, dist, triangle) ==
    [ position |-> PlusVec(p.position, NormalTimesDepth(triangle.normal, dist, PlayerRadius)),
      velocity |-> Zero3,
      jumps |-> MAX_JUMPS,
      branch |-> "wall" ]

(* Face contact with a triangle that is too steep to be a floor.           *)
PlayerWallContact(p, dist, triangle) ==
    [ position |-> PlusVec(p.position, NormalTimesDepth(triangle.normal, dist, PlayerRadius)),
      velocity |-> p.velocity,
      jumps |-> p.jumps,
      branch |-> "wall" ]

(* The else branch treated like a landing whatever the push direction.     *)
PlayerEdgePushAsLanding(p, v, push) ==
    [ position |-> PlusVec(p.position, push),
      velocity |-> Zero3,
      jumps |-> MAX_JUMPS,
      branch |-> IF PushIsFloorLike(v) THEN "edge_floor" ELSE "edge" ]

(* The else branch: the nearest point of the triangle's edges.  v is       *)
(* capsule_ref - best_point, push is push_dir * (radius - best_dist).      *)
PlayerEdgePush(p, v, push) ==
    [ position |-> PlusVec(p.position, push),
      velocity |-> IF PushIsFloorLike(v) THEN Zero3 ELSE p.velocity,
      jumps |-> IF PushIsFloorLike(v) THEN MAX_JUMPS ELSE p.jumps,
      branch |-> IF PushIsFloorLike(v) THEN "edge_floor" ELSE "edge" ]

PlayerEdgeContact(p, capsule_ref, triangle) ==
    The({ IF best.dist_sq.n < PlayerRadius * PlayerRadius * best.dist_sq.d
          THEN The({ PlayerEdgePush(p, offset.n, NormalizedTimesDepth(offset, PlayerRadius)) :
                     offset \in {SubR(capsule_ref, best.point)} })
          ELSE [position |-> p.position, velocity |-> p.velocity, jumps |-> p.jumps,
                branch |-> "none"] :
          best \in {closest_point_on_triangle(capsule_ref, triangle)} })

(* "Check player capsule against triangle": position, velocity and jump    *)
(* count after the triangle, and the branch that was taken.                *)
PlayerAfterTriangle(p, segment, triangle) ==
    The({ The({ IF FaceContactAt(proj, triangle)
                THEN IF FloorLike(triangle)
                     THEN PlayerFloorContact(p, capsule_ref, triangle)
                     ELSE PlayerWallContact(p, proj.dist, triangle)
                ELSE PlayerEdgeContact(p, capsule_ref, triangle) :
                proj \in {projected_point_on_plane(capsule_ref, triangle.a,
                                                  triangle.normal)} }) :
          capsule_ref \in {CapsuleRef(segment, triangle)} })

---------------------------------------------------------------------------
(* Inputs of a frame.                                                      *)

(* delta_time in 1/20 s: a frame at 20 fps, or one that took 0.25 s.       *)
DeltaTimes == {1, 5}

(* The left stick: unchanged since the last sync, moved into the deadzone, *)
(* or moved so that normalize(untreated) * MOVEMENT_SPEED * magnitude is   *)
(* 2 m/s along +x, towards the wall.                                       *)
StickUnchanged == [changed |-> FALSE, deadzone |-> FALSE, ugh |-> <<0, 0>>]

StickDeadzone == [changed |-> TRUE, deadzone |-> TRUE, ugh |-> <<0, 0>>]

StickMoved(x, y) == [changed |-> TRUE, deadzone |-> FALSE, ugh |-> <<x, y>>]

StickInputs == {StickUnchanged, StickDeadzone, StickMoved(2, 0)}

NoStickInputs == {StickUnchanged}

(* The keys main() reads, and the direction of each key of               *)
(* key_directions, in view space.                                          *)
KeyOrder ==
    <<"LeftShift", "LeftControl", "Escape", "W", "S", "A", "D", "Q", "E", "MouseButtonRight">>

key_directions ==
    [ W |-> <<0, 0, -1>>, S |-> <<0, 0, 1>>, A |-> <<-1, 0, 0>>, D |-> <<1, 0, 0>>,
      Q |-> <<0, -1, 0>>, E |-> <<0, 1, 0>> ]

Press(key) == [action |-> "Press", key |-> key]

Release(key) == [action |-> "Release", key |-> key]

(* WindowEvent::Key(key, _, Action::Press, _) and (.., Action::Release, _) *)
(* on camera_input, camera_speed and do_imgui.                             *)
HandleKey(s, event) ==
    IF event.key \in DOMAIN key_directions
    THEN [ s EXCEPT !.camera_input =
               IF event.action = "Press" THEN Add3(@, key_directions[event.key])
               ELSE Sub3(@, key_directions[event.key]) ]
    ELSE IF event.action = "Press"
    THEN IF event.key = "Escape" THEN [s EXCEPT !.do_imgui = ~@]
         ELSE IF event.key = "LeftShift" THEN [s EXCEPT !.camera_speed = @ * 5]
         ELSE IF event.key = "LeftControl" THEN [s EXCEPT !.camera_speed = @ \div 5]
         ELSE s
    ELSE IF event.key = "LeftShift" THEN [s EXCEPT !.camera_speed = @ \div 5]
         ELSE IF event.key = "LeftControl" THEN [s EXCEPT !.camera_speed = @ * 5]
         ELSE s

(* WindowEvent::CursorPos(x, y), by the offset of (x, y) from the middle   *)
(* of the window, in pixels.                                               *)
CursorPos(offset) == [action |-> "CursorPos", offset |-> offset]

(* The arms of the window event match that write the camera's state: the  *)
(* key events, the release of the right mouse button and the cursor.       *)
HandleEvent(s, event) ==
    IF event.action = "CursorPos"
    THEN IF s.mouselook_enabled
         THEN [ s EXCEPT !.camera_orientation =
                    << @[1] + event.offset[1] * CAMERA_SENSITIVITY_DAMPENING,
                       IF @[2] + event.offset[2] * CAMERA_SENSITIVITY_DAMPENING < -Pi
                       THEN -Pi
                       ELSE IF @[2] + event.offset[2] * CAMERA_SENSITIVITY_DAMPENING > 0
                       THEN 0
                       ELSE @[2] + event.offset[2] * CAMERA_SENSITIVITY_DAMPENING >> ]
         ELSE s
    ELSE IF event.key = "MouseButtonRight"
    THEN IF event.action = "Release"
         THEN [s EXCEPT !.mouselook_enabled = ~@]
         ELSE s
    ELSE HandleKey(s, event)

(* "for (_, event) in glfw::flush_messages(&events)", for these events.    *)
RECURSIVE HandleEvents(_, _)
HandleEvents(s, events) ==
    IF Len(events) = 0 THEN s
    ELSE HandleEvents(HandleEvent(s, Head(events)), Tail(events))

(* The keyboard and the mouse buttons: a key that is up can be pressed, a  *)
(* key that is down can be released (while it is held down glfw sends      *)
(* Action::Repeat).  The cursor can always move.                           *)
RECURSIVE KeysAfter(_, _)
KeysAfter(held, events) ==
    IF Len(events) = 0 THEN held
    ELSE KeysAfter(IF Head(events).action = "Press" THEN held \cup {Head(events).key}
                   ELSE IF Head(events).action = "Release" THEN held \ {Head(events).key}
                   ELSE held,
                   Tail(events))

RECURSIVE LegalEvents(_, _)
LegalEvents(held, events) ==
    IF Len(events) = 0 THEN TRUE
    ELSE /\ IF Head(events).action = "Press" THEN Head(events).key \notin held
            ELSE IF Head(events).action = "Release" THEN Head(events).key \in held
            ELSE TRUE
         /\ LegalEvents(KeysAfter(held, <<Head(events)>>), Tail(events))

(* The events of a user who changes the keys held to target: the keys let  *)
(* go, then the keys pressed.                                              *)
SeqOfKeys(keys, action) ==
    [ i \in 1..Len(SelectSeq(KeyOrder, LAMBDA k : k \in keys)) |->
          IF action = "Press" THEN Press(SelectSeq(KeyOrder, LAMBDA k : k \in keys)[i])
          ELSE Release(SelectSeq(KeyOrder, LAMBDA k : k \in keys)[i]) ]

EventsTo(held, target) ==
    SeqOfKeys(held \ target, "Release") \o SeqOfKeys(target \ held, "Press")

(* What the user holds in a frame.  Flying the camera: nothing, along the  *)
(* view axes -z (W), +y (E) and -x (A) with LeftShift, back along +x (D)   *)
(* with LeftShift and LeftControl, and the right mouse button, whose       *)
(* release switches mouselook.  Leaving the camera where it is: nothing,   *)
(* Escape, or LeftControl.                                                 *)
CameraHolds ==
    { {}, {"LeftShift", "E"}, {"LeftShift", "W"}, {"LeftShift", "A"},
      {"LeftShift", "LeftControl", "D"}, {"MouseButtonRight"} }

NoCameraHolds == { {}, {"Escape"}, {"LeftControl"} }

(* Where the user moves the cursor in a frame: not at all, or 2000 pixels  *)
(* below the middle of the window, which turns the pitch to its limit 0    *)
(* (looking down, the view axes are the world's).                          *)
CursorMoves == { <<>>, <<CursorPos(<<0, 2000>>)>> }

NoCursorMoves == { <<>> }

(* The hacking window: whether the "Camera collision" checkbox and the     *)
(* "Reset player position" button are clicked in a frame.                  *)
Clicks(collision, reset) == [camera_collision |-> collision, reset |-> reset]

ClickInputs == { Clicks(c, r) : c \in BOOLEAN, r \in BOOLEAN }

CollisionClicks == { Clicks(c, FALSE) : c \in BOOLEAN }

(* What the frame has done so far: the player position before it was       *)
(* integrated, the velocity integrated, the camera position before and     *)
(* after it was integrated, the branches of the capsule test taken, the    *)
(* steps that have assigned player.movement_state, movement_state when the *)
(* frame began, jumps_remaining when the terrain loop began, and whether   *)
(* the loop has assigned jumps_remaining.                                  *)
(* No SetListenerVelocity has been sent in this frame.                     *)
NoCommand == <<>>

(* main() runs with an OpenXR instance or, when none can be made, without. *)
XrInstances == {"Some", "None"}

NoObs == [pos0 |-> Zero3, vel |-> Zero3, cam0 |-> Zero3, cam1 |-> Zero3,
          floor |-> FALSE, wall |-> FALSE, edge |-> FALSE, state_writers |-> {},
          state0 |-> "none", jumps0 |-> 0, jumps_reset |-> FALSE]

---------------------------------------------------------------------------
(* The state after construction.                                           *)

InitLoop ==
    /\ pc = "sync"
    /\ tri = 0
    /\ delta_time = 0
    /\ tracking_position = Zero3
    /\ tracking_velocity = Zero3
    /\ tracked_segment = [p0 |-> Zero3, p1 |-> Zero3]
    /\ last_tracked_segment = [p0 |-> Zero3, p1 |-> Zero3]
    /\ movement_state = "Falling"
    /\ jumps_remaining = MAX_JUMPS
    /\ was_holding_jump = FALSE
    /\ camera_position = <<0, CameraStartY, CameraStartZ>>
    /\ last_camera_position = <<0, CameraStartY, CameraStartZ>>
    /\ camera_speed = CAMERA_SPEED
    /\ camera_input = Zero3
    /\ camera_collision = TRUE
    /\ do_imgui = TRUE
    /\ keys_held = {}
    /\ mouselook_enabled = FALSE
    /\ camera_orientation = <<0, CameraStartPitch>>
    /\ view_from_world = IdentityView
    /\ jump_trigger = FALSE
    /\ obs = NoObs
    /\ listener_velocity = NoCommand

InitFrame ==
    /\ InitLoop
    /\ terrain = Terrain

---------------------------------------------------------------------------
(* The steps of a frame, in the order of main()'s loop body.               *)

(* The reset that forgets to zero last_tracked_segment.                    *)
PlayerAfterResetButLastSegment(player) ==
    [ player EXCEPT !.tracking_position = <<0, 0, SpawnHeight>>,
                    !.tracking_velocity = Zero3,
                    !.tracked_segment = [p0 |-> Zero3, p1 |-> Zero3],
                    !.jumps_remaining = MAX_JUMPS,
                    !.movement_state = "Falling" ]

(* The Player that reset_player_position leaves.                           *)
PlayerAfterReset(player) ==
    [ player EXCEPT !.tracking_position = <<0, 0, SpawnHeight>>,
                    !.tracking_velocity = Zero3,
                    !.tracked_segment = [p0 |-> Zero3, p1 |-> Zero3],
                    !.last_tracked_segment = [p0 |-> Zero3, p1 |-> Zero3],
                    !.jumps_remaining = MAX_JUMPS,
                    !.movement_state = "Falling" ]

(* The Player of main().                                                   *)
ThePlayer ==
    [ tracking_position |-> tracking_position,
      tracking_velocity |-> tracking_velocity,
      tracked_segment |-> tracked_segment,
      last_tracked_segment |-> last_tracked_segment,
      movement_state |-> movement_state,
      radius |-> PlayerRadius,
      jumps_remaining |-> jumps_remaining,
      was_holding_jump |-> was_holding_jump ]

reset_player_position ==
    \E p \in {PlayerAfterReset(ThePlayer)} :
        /\ tracking_position' = p.tracking_position
        /\ tracking_velocity' = p.tracking_velocity
        /\ tracked_segment' = p.tracked_segment
        /\ last_tracked_segment' = p.last_tracked_segment
        /\ jumps_remaining' = p.jumps_remaining
        /\ movement_state' = p.movement_state
        /\ was_holding_jump' = p.was_holding_jump

(* delta_time is measured, the actions are synced and the emergency escape *)
(* button resets the player.  No action of the program is bound to a jump: *)
(* jump is what the user did.  Nothing has been sent to the audio thread   *)
(* in this frame yet.                                                      *)
BeginFrame(dt, go_home, jump) ==
    /\ pc = "sync"
    /\ ~IsNaN(tracking_position)
    /\ ~IsNaN(camera_position)
    /\ delta_time' = dt
    /\ jump_trigger' = jump
    /\ IF go_home
       THEN /\ reset_player_position
            /\ obs' = [obs EXCEPT !.state0 = movement_state,
                                  !.state_writers = @ \cup {"sync"}]
       ELSE /\ obs' = [obs EXCEPT !.state0 = movement_state]
            /\ UNCHANGED playerVars
    /\ pc' = "gravity"
    /\ listener_velocity' = NoCommand
    /\ UNCHANGED <<tri, cameraVars, geomVars>>

(* The gravity step with the downward speed clamped as well.               *)
GravityStepClampedBothWays(state, velocity, dt) ==
    IF state # "Grounded"
    THEN LET vz == velocity[3] - (ACCELERATION_GRAVITY * dt) \div 20
         IN  << velocity[1], velocity[2],
                IF vz > GRAVITY_VELOCITY_CAP THEN GRAVITY_VELOCITY_CAP
                ELSE IF vz < -GRAVITY_VELOCITY_CAP THEN -GRAVITY_VELOCITY_CAP ELSE vz >>
    ELSE velocity

(* "Gravity the player": tracking_velocity after the step, for dt in       *)
(* 1/20 s.                                                                 *)
GravityStep(state, velocity, dt) ==
    IF state # "Grounded"
    THEN LET vz == velocity[3] - (ACCELERATION_GRAVITY * dt) \div 20
         IN  << velocity[1], velocity[2],
                IF vz > GRAVITY_VELOCITY_CAP THEN GRAVITY_VELOCITY_CAP ELSE vz >>
    ELSE velocity

Gravity ==
    /\ pc = "gravity"
    /\ tracking_velocity' = GravityStep(movement_state, tracking_velocity, delta_time)
    /\ pc' = "input"
    /\ UNCHANGED listener_velocity
    /\ UNCHANGED <<tracking_position, tracked_segment, last_tracked_segment, movement_state,
                   jumps_remaining, was_holding_jump, cameraVars, geomVars, tri, delta_time,
                   jump_trigger, obs>>

(* "Handle player inputs": the movement stick.  Both hands hold            *)
(* Gadget::Shotgun, whose match arms are empty, and nothing reads a jump:  *)
(* the action states of this frame are last used here.                     *)
HandleInput(stick) ==
    /\ pc = "input"
    /\ IF stick.changed
       THEN IF stick.deadzone
            THEN /\ tracking_velocity' =
                       IF movement_state = "Grounded"
                       THEN <<0, 0, tracking_velocity[3]>>
                       ELSE tracking_velocity
                 /\ UNCHANGED <<movement_state, obs>>
            ELSE /\ tracking_velocity' = <<stick.ugh[1], stick.ugh[2], tracking_velocity[3]>>
                 /\ movement_state' = "Falling"
                 /\ obs' = [obs EXCEPT !.state_writers = @ \cup {"input"}]
       ELSE UNCHANGED <<tracking_velocity, movement_state, obs>>
    /\ jump_trigger' = FALSE
    /\ pc' = "camera"
    /\ UNCHANGED listener_velocity
    /\ UNCHANGED <<tracking_position, tracked_segment, last_tracked_segment,
                   jumps_remaining, was_holding_jump, cameraVars, geomVars, tri, delta_time>>

(* The window events polled in this frame, and                            *)
(* camera_position += camera_velocity * delta_time, where camera_velocity  *)
(* is camera_input turned from view space to world space by the view the   *)
(* frame before stored, times camera_speed.  The step is rounded to the    *)
(* centimetre.  The model follows the camera on the -x side of the         *)
(* terrain.  The keys held make camera_speed one of 1, 5 and 25 m/s.       *)
MoveCamera(events) ==
    /\ pc = "camera"
    /\ LegalEvents(keys_held, events)
    /\ keys_held' = KeysAfter(keys_held, events)
    /\ \E s \in {HandleEvents([camera_input |-> camera_input, camera_speed |-> camera_speed,
                                do_imgui |-> do_imgui,
                                mouselook_enabled |-> mouselook_enabled,
                                camera_orientation |-> camera_orientation], events)} :
       \E step \in {Scale3(s.camera_speed * delta_time * CmPerStep,
                            WorldFromView(view_from_world, s.camera_input))} :
       \E moved \in {Add3(camera_position,
                          << RoundDiv(step[1], TrigDen), RoundDiv(step[2], TrigDen),
                             RoundDiv(step[3], TrigDen) >>)} :
           /\ moved[1] >= -MaxCameraX /\ moved[1] <= 0
           /\ moved[2] >= CameraStartY /\ moved[2] <= 0
           /\ moved[3] >= -MaxCameraDepth /\ moved[3] <= CameraStartZ
           /\ camera_input' = s.camera_input
           /\ camera_speed' = s.camera_speed
           /\ do_imgui' = s.do_imgui
           /\ mouselook_enabled' = s.mouselook_enabled
           /\ camera_orientation' = s.camera_orientation
           /\ camera_position' = moved
    /\ obs' = [obs EXCEPT !.cam0 = camera_position, !.cam1 = camera_position']
    /\ pc' = "integrate"
    /\ UNCHANGED listener_velocity
    /\ UNCHANGED <<playerVars, last_camera_position, camera_collision, xr_instance,
                   view_from_world, geomVars, tri, delta_time, jump_trigger>>

(* "Update tracking space location" and the tracked segment.               *)
Integrate ==
    /\ pc = "integrate"
    /\ LET moved == Add3(tracking_position,
                         Scale3(delta_time * CmPerStep, tracking_velocity))
       IN  /\ Abs(moved[1]) <= MaxWalk
           /\ Abs(moved[2]) <= MaxWalk
           /\ moved[3] >= -MaxDepth
           /\ tracking_position' = moved
           /\ tracked_segment' = tracked_player_segment(moved)
    /\ obs' = [obs EXCEPT !.pos0 = tracking_position, !.vel = tracking_velocity,
                          !.jumps0 = jumps_remaining]
    /\ tri' = 0
    /\ pc' = IF Len(terrain.indices) = 0 THEN "finish" ELSE "collide"
    /\ UNCHANGED listener_velocity
    /\ UNCHANGED <<tracking_velocity, last_tracked_segment, movement_state, jumps_remaining,
                   was_holding_jump, cameraVars, geomVars, delta_time, jump_trigger>>

(* One pass of "for i in (0..terrain.indices.len()).step_by(3)".           *)
CollideTriangle ==
    /\ pc = "collide"
    /\ \E triangle \in {get_terrain_triangle(terrain, tri)} :
       \E p \in {PlayerAfterTriangle([position |-> tracking_position,
                                      velocity |-> tracking_velocity,
                                      jumps |-> jumps_remaining],
                                     tracked_segment, triangle)} :
           /\ camera_position' = CameraAfterTriangle(camera_collision, camera_position,
                                                     triangle)
           /\ tracking_position' = p.position
           /\ tracking_velocity' = p.velocity
           /\ jumps_remaining' = p.jumps
           /\ obs' = [obs EXCEPT !.floor = @ \/ p.branch = "floor",
                                 !.wall = @ \/ p.branch = "wall",
                                 !.edge = @ \/ p.branch \in {"edge", "edge_floor"},
                                 !.jumps_reset = @ \/ p.branch \in {"floor", "edge_floor"}]
    /\ tri' = tri + 3
    /\ pc' = IF tri + 3 >= Len(terrain.indices) THEN "finish" ELSE "collide"
    /\ UNCHANGED listener_velocity
    /\ UNCHANGED <<tracked_segment, last_tracked_segment, movement_state, was_holding_jump,
                   last_camera_position, camera_speed, camera_input, camera_collision,
                   do_imgui, xr_instance, keys_held, mouselook_enabled, camera_orientation,
                   view_from_world, geomVars, delta_time, jump_trigger>>

(* What follows the terrain loop: the segment of this frame becomes the    *)
(* last one; the audio thread is told the listener's velocity, the foot's  *)
(* with an OpenXR instance and the camera's without; the camera position   *)
(* becomes the last one; the hacking window, if drawn, takes the clicks on *)
(* "Camera collision" and, with an instance, on "Reset player position";   *)
(* the view matrix is made from camera_orientation and stored in           *)
(* screen_state; and the frame's locals go out of scope.                   *)
EndFrame(clicks) ==
    /\ pc = "finish"
    /\ (clicks.camera_collision \/ clicks.reset) => do_imgui
    /\ clicks.reset => xr_instance = "Some"
    /\ \E last \in {tracked_segment} :
          /\ listener_velocity' = IF xr_instance = "Some"
                                  THEN Sub3(tracked_segment.p0, last.p0)
                                  ELSE Sub3(camera_position, last_camera_position)
          /\ \E p \in {IF clicks.reset
                        THEN PlayerAfterReset([ThePlayer EXCEPT !.last_tracked_segment = last])
                        ELSE [ThePlayer EXCEPT !.last_tracked_segment = last]} :
                /\ tracking_position' = p.tracking_position
                /\ tracking_velocity' = p.tracking_velocity
                /\ tracked_segment' = p.tracked_segment
                /\ last_tracked_segment' = p.last_tracked_segment
                /\ jumps_remaining' = p.jumps_remaining
                /\ movement_state' = p.movement_state
                /\ was_holding_jump' = p.was_holding_jump
    /\ last_camera_position' = camera_position
    /\ camera_collision' = IF clicks.camera_collision THEN ~camera_collision
                           ELSE camera_collision
    /\ view_from_world' = camera_orientation
    /\ delta_time' = 0
    /\ jump_trigger' = FALSE
    /\ obs' = NoObs
    /\ tri' = 0
    /\ pc' = "sync"
    /\ UNCHANGED <<camera_position, camera_speed, camera_input, do_imgui, xr_instance,
                   keys_held, mouselook_enabled, camera_orientation, geomVars>>

---------------------------------------------------------------------------
(* Inputs of the collision.rs functions.                                   *)

Coord == -1 .. MaxCoord

(* Points have w = 1 and directions w = 0, as their callers build them.    *)
Points == {<<x, y, z, 1>> : x \in Coord, y \in Coord, z \in Coord}

Normals ==
    { <<0, 0, 1, 0>>, <<0, 0, -1, 0>>, <<1, 0, 0, 0>>, <<0, -1, 0, 0>>,
      <<1, 0, 1, 0>>, <<1, 1, 1, 0>>, <<1, -1, 2, 0>>, <<-2, 1, 1, 0>> }

PlaneInputs == {Plane(<<k, 0, k, 1>>, n) : k \in Coord, n \in Normals}

SegmentInputs == {LineSegment(p0, p1) : p0 \in Points, p1 \in Points}

TallZ == 0 .. MaxTallZ

TallNormals == {<<0, 0, 1, 0>>, <<0, 0, -1, 0>>, <<1, 0, 2, 0>>}

TallLevels == {2, 3, 5}

TallPlanes == {Plane(<<0, 0, k, 1>>, n) : k \in TallLevels, n \in TallNormals}

TallSegments ==
    {LineSegment(<<0, 0, z0, 1>>, <<x1, y1, z1, 1>>) :
        z0 \in TallZ, x1 \in {0, 1}, y1 \in {0, 1}, z1 \in TallZ}

PlaneLists == UNION {[1 .. k -> TallPlanes] : k \in 0 .. MaxPlanes}

(* 2-D triangles with vertices on the multiples of 3, so that the centroid *)
(* (a + b + c) / 3 is a grid point, and test points on the whole grid.     *)
TriCoord == 0 .. MaxTri

TriVertices == {<<3 * x, 3 * y>> : x \in TriCoord, y \in TriCoord}

TestPoints == {<<x, y>> : x \in 0 .. 3 * MaxTri, y \in 0 .. 3 * MaxTri}

NoPlane == Plane(Zero4, Zero4)

NoSegment == LineSegment(Zero4, Zero4)

NoTriangle == << <<0, 0>>, <<0, 0>>, <<0, 0>> >>

(* closest_point_on_triangle: right triangles with legs of TriangleLeg on   *)
(* two axes, in every axis plane and both windings, and query points on    *)
(* the even lattice, so that every closest point has whole coordinates.    *)
MaxQuery == 5
TriangleLeg == 8
QueryCoord == { 2 * k : k \in -1..MaxQuery }
QueryPoints == QueryCoord \X QueryCoord \X QueryCoord
ClosestTriangles ==
    { [ a |-> Zero3, b |-> <<TriangleLeg, 0, 0>>, c |-> <<0, TriangleLeg, 0>>,
        normal |-> <<0, 0, NormalDen>> ],
      [ a |-> Zero3, b |-> <<0, TriangleLeg, 0>>, c |-> <<TriangleLeg, 0, 0>>,
        normal |-> <<0, 0, -NormalDen>> ],
      [ a |-> Zero3, b |-> <<0, TriangleLeg, 0>>, c |-> <<0, 0, TriangleLeg>>,
        normal |-> <<NormalDen, 0, 0>> ],
      [ a |-> Zero3, b |-> <<TriangleLeg, 0, 0>>, c |-> <<0, 0, TriangleLeg>>,
        normal |-> <<0, -NormalDen, 0>> ] }

(* from_ozt: files written from a content (vertices, indices, normals) in  *)
(* the layout of the format, whole or damaged: the last byte missing, four *)
(* bytes too many in the vertices block, or one in the indices block.      *)
MaxVertices == 2
MaxIndices == 3
MaxNormals == 1
One == F32(0, 127, 0)
Tenth == F32(0, 123, 5033165)
MinusTwoAndAHalf == F32(1, 128, 2097152)
OztVectors == { <<One, Tenth, MinusTwoAndAHalf>>, <<Tenth, MinusTwoAndAHalf, One>> }
OztIndices == {0, 258}
Damages == {"none", "truncated", "ragged_vertices", "odd_indices"}

SeqsUpTo(S, n) == UNION { [1..k -> S] : k \in 0..n }

OztContents ==
    [ vertices : SeqsUpTo(OztVectors, MaxVertices),
      indices : SeqsUpTo(OztIndices, MaxIndices),
      face_normals : SeqsUpTo(OztVectors, MaxNormals),
      damage : Damages ]

EncodeU32(n) ==
    <<n % 256, (n \div 256) % 256, (n \div 65536) % 256, n \div 16777216>>

EncodeU16(n) == <<n % 256, n \div 256>>

EncodeF32(f) ==
    << f.mantissa % 256, (f.mantissa \div 256) % 256,
       (f.mantissa \div 65536) + 128 * (f.exponent % 2),
       (f.exponent \div 2) + 128 * f.sign >>

EncodeVec3(v) == EncodeF32(v[1]) \o EncodeF32(v[2]) \o EncodeF32(v[3])

RECURSIVE Concat(_)
Concat(chunks) ==
    IF chunks = <<>> THEN <<>> ELSE Head(chunks) \o Concat(Tail(chunks))

VertexBlock(content) ==
    Concat([k \in 1..Len(content.vertices) |-> EncodeVec3(content.vertices[k])])
        \o (IF content.damage = "ragged_vertices" THEN <<0, 0, 0, 0>> ELSE <<>>)

IndexBlock(content) ==
    Concat([k \in 1..Len(content.indices) |-> EncodeU16(content.indices[k])])
        \o (IF content.damage = "odd_indices" THEN <<0>> ELSE <<>>)

NormalBlock(content) ==
    Concat([k \in 1..Len(content.face_normals) |-> EncodeVec3(content.face_normals[k])])

WholeFile(content) ==
    EncodeU32(Len(VertexBlock(content))) \o VertexBlock(content)
        \o EncodeU32(Len(IndexBlock(content))) \o IndexBlock(content)
        \o EncodeU32(Len(NormalBlock(content))) \o NormalBlock(content)

OztFile(content) ==
    IF content.damage = "truncated"
    THEN SubSeq(WholeFile(content), 1, Len(WholeFile(content)) - 1)
    ELSE WholeFile(content)

(* ray_hit_terrain: levels of up to MaxRayTriangles triangles, taken from  *)
(* two coplanar floors, a ceiling that faces down, a wall across x, a wall *)
(* across y and a slope; rays from points beside and between them, along   *)
(* the axes and along a diagonal.                                          *)
MaxRayTriangles == 2
Triangle(a, b, c, normal) == [a |-> a, b |-> b, c |-> c, normal |-> normal]
RayTriangles ==
    { Triangle(<<0, 0, 0>>, <<4, 0, 0>>, <<0, 4, 0>>, <<0, 0, 1>>),
      Triangle(<<0, 0, 0>>, <<8, 0, 0>>, <<0, 8, 0>>, <<0, 0, 1>>),
      Triangle(<<0, 0, 2>>, <<0, 4, 2>>, <<4, 0, 2>>, <<0, 0, -1>>),
      Triangle(<<2, 0, 0>>, <<2, 4, 0>>, <<2, 0, 4>>, <<1, 0, 0>>),
      Triangle(<<0, 2, 0>>, <<4, 2, 0>>, <<0, 2, 4>>, <<0, -1, 0>>),
      Triangle(<<4, 0, 0>>, <<0, 4, 0>>, <<0, 0, 4>>, <<1, 1, 1>>) }

(* The Terrain whose triangles are the given ones, in order.               *)
TerrainOf(triangles) ==
    [ vertices |-> [ k \in 1..(3 * Len(triangles)) |->
                       IF k % 3 = 1 THEN triangles[(k + 2) \div 3].a
                       ELSE IF k % 3 = 2 THEN triangles[(k + 2) \div 3].b
                       ELSE triangles[(k + 2) \div 3].c ],
      indices |-> [k \in 1..(3 * Len(triangles)) |-> k - 1],
      face_normals |-> [k \in 1..Len(triangles) |-> triangles[k].normal] ]

RayTerrains ==
    { TerrainOf(triangles) :
        triangles \in UNION { [1..k -> RayTriangles] : k \in 1..MaxRayTriangles } }

RayOrigins == { <<x, y, z, 1>> : x \in {1, 3}, y \in {1, 3}, z \in {-1, 1, 3} }

RayDirections ==
    { <<1, 0, 0, 0>>, <<-1, 0, 0, 0>>, <<0, 1, 0, 0>>, <<0, -1, 0, 0>>,
      <<0, 0, 1, 0>>, <<0, 0, -1, 0>>, <<-1, -1, -1, 0>> }

(* aabb_get_top_plane and aabb_get_bottom_plane: boxes with whole extents  *)
(* of at least 1.                                                          *)
MaxExtent == 2
BoxCoord == {-1, 0, 2}
Boxes ==
    { AABB(<<x, y, z, 1>>, width, depth, height) :
        x \in BoxCoord, y \in BoxCoord, z \in BoxCoord,
        width \in 1..MaxExtent, depth \in 1..MaxExtent, height \in 1..MaxExtent }

(* segment_hit_bounded_plane: a level plane and a slope through the        *)
(* origin, segments that start above them, and rectangles around and       *)
(* beside the origin.                                                      *)
BoundedPlanes == { Plane(<<0, 0, 0, 1>>, <<0, 0, 1, 0>>), Plane(<<0, 0, 0, 1>>, <<1, 0, 1, 0>>) }

BoundedSegments ==
    { LineSegment(<<x0, y0, 1, 1>>, <<x1, y1, z1, 1>>) :
        x0 \in Coord, y0 \in Coord, x1 \in Coord, y1 \in Coord, z1 \in {-1, 1} }

BoundaryInputs ==
    { PlaneBoundaries(xmin, xmax, -1, ymax) :
        xmin \in {-1, 0}, xmax \in {0, 1}, ymax \in {0, 1} }

NoArg == [none |-> TRUE]

---------------------------------------------------------------------------
(* The functions applied to the inputs: the function and its arguments are *)
(* drawn at the start, the call computes the result.                       *)

InitSegmentHitPlane ==
    /\ g_fn = "segment_hit_plane"
    /\ g_plane \in PlaneInputs
    /\ g_segment \in SegmentInputs
    /\ g_planes = <<>>
    /\ g_test = <<0, 0>>
    /\ g_tri = NoTriangle
    /\ g_arg = NoArg

InitLength ==
    /\ g_fn = "length"
    /\ g_plane = NoPlane
    /\ g_segment \in SegmentInputs
    /\ g_planes = <<>>
    /\ g_test = <<0, 0>>
    /\ g_tri = NoTriangle
    /\ g_arg = NoArg

InitTallestCollision ==
    /\ g_fn = "segment_plane_tallest_collision"
    /\ g_plane = NoPlane
    /\ g_segment \in TallSegments
    /\ g_planes \in PlaneLists
    /\ g_test = <<0, 0>>
    /\ g_tri = NoTriangle
    /\ g_arg = NoArg

InitPointInTriangle ==
    /\ g_fn = "point_in_triangle"
    /\ g_plane = NoPlane
    /\ g_segment = NoSegment
    /\ g_planes = <<>>
    /\ g_test \in TestPoints
    /\ g_tri \in TriVertices \X TriVertices \X TriVertices
    /\ g_arg = NoArg

InitClosestPoint ==
    /\ g_fn = "closest_point_on_triangle"
    /\ g_plane = NoPlane
    /\ g_segment = NoSegment
    /\ g_planes = <<>>
    /\ g_test = <<0, 0>>
    /\ g_tri = NoTriangle
    /\ g_arg \in [q : QueryPoints, triangle : ClosestTriangles]

InitFromOzt ==
    /\ g_fn = "from_ozt"
    /\ g_plane = NoPlane
    /\ g_segment = NoSegment
    /\ g_planes = <<>>
    /\ g_test = <<0, 0>>
    /\ g_tri = NoTriangle
    /\ \E content \in OztContents :
          g_arg = [file |-> OztFile(content), content |-> content]

InitRayHitTerrain ==
    /\ g_fn = "ray_hit_terrain"
    /\ g_plane = NoPlane
    /\ g_segment = NoSegment
    /\ g_planes = <<>>
    /\ g_test = <<0, 0>>
    /\ g_tri = NoTriangle
    /\ g_arg \in [terrain : RayTerrains, ray_origin : RayOrigins,
                  ray_direction : RayDirections]

InitAabbPlane ==
    /\ g_fn \in {"aabb_get_top_plane", "aabb_get_bottom_plane"}
    /\ g_plane = NoPlane
    /\ g_segment = NoSegment
    /\ g_planes = <<>>
    /\ g_test = <<0, 0>>
    /\ g_tri = NoTriangle
    /\ g_arg \in [aabb : Boxes]

InitBoundedPlane ==
    /\ g_fn = "segment_hit_bounded_plane"
    /\ g_plane \in BoundedPlanes
    /\ g_segment \in BoundedSegments
    /\ g_planes = <<>>
    /\ g_test = <<0, 0>>
    /\ g_tri = NoTriangle
    /\ g_arg \in [boundaries : BoundaryInputs]

InitGeom ==
    /\ \/ InitSegmentHitPlane
       \/ InitTallestCollision
       \/ InitPointInTriangle
       \/ InitClosestPoint
       \/ InitFromOzt
       \/ InitRayHitTerrain
       \/ InitAabbPlane
       \/ InitBoundedPlane
       \/ InitLength
    /\ g_done = FALSE
    /\ g_ret = FALSE
    /\ InitFrame
    /\ xr_instance = "Some"

CallSegmentHitPlane ==
    /\ g_fn = "segment_hit_plane"
    /\ ~g_done
    /\ g_ret' = segment_hit_plane(g_plane, g_segment)
    /\ g_done' = TRUE
    /\ UNCHANGED <<g_fn, g_plane, g_segment, g_planes, g_test, g_tri, g_arg, terrain>>
    /\ UNCHANGED <<playerVars, cameraVars, frameVars>>

CallLength ==
    /\ g_fn = "length"
    /\ ~g_done
    /\ g_ret' = length(g_segment)
    /\ g_done' = TRUE
    /\ UNCHANGED <<g_fn, g_plane, g_segment, g_planes, g_test, g_tri, g_arg, terrain>>
    /\ UNCHANGED <<playerVars, cameraVars, frameVars>>

CallTallestCollision ==
    /\ g_fn = "segment_plane_tallest_collision"
    /\ ~g_done
    /\ g_ret' = segment_plane_tallest_collision(g_segment, g_planes)
    /\ g_done' = TRUE
    /\ UNCHANGED <<g_fn, g_plane, g_segment, g_planes, g_test, g_tri, g_arg, terrain>>
    /\ UNCHANGED <<playerVars, cameraVars, frameVars>>

CallPointInTriangle ==
    /\ g_fn = "point_in_triangle"
    /\ ~g_done
    /\ g_ret' = point_in_triangle(g_test, g_tri[1], g_tri[2], g_tri[3])
    /\ g_done' = TRUE
    /\ UNCHANGED <<g_fn, g_plane, g_segment, g_planes, g_test, g_tri, g_arg, terrain>>
    /\ UNCHANGED <<playerVars, cameraVars, frameVars>>

CallClosestPoint ==
    /\ g_fn = "closest_point_on_triangle"
    /\ ~g_done
    /\ g_ret' = closest_point_on_triangle(Whole3(g_arg.q), g_arg.triangle)
    /\ g_done' = TRUE
    /\ UNCHANGED <<g_fn, g_plane, g_segment, g_planes, g_test, g_tri, g_arg, terrain>>
    /\ UNCHANGED <<playerVars, cameraVars, frameVars>>

CallFromOzt ==
    /\ g_fn = "from_ozt"
    /\ ~g_done
    /\ g_ret' = from_ozt(g_arg.file)
    /\ g_done' = TRUE
    /\ UNCHANGED <<g_fn, g_plane, g_segment, g_planes, g_test, g_tri, g_arg, terrain>>
    /\ UNCHANGED <<playerVars, cameraVars, frameVars>>

CallRayHitTerrain ==
    /\ g_fn = "ray_hit_terrain"
    /\ ~g_done
    /\ g_ret' = ray_hit_terrain(g_arg.terrain, g_arg.ray_origin, g_arg.ray_direction)
    /\ g_done' = TRUE
    /\ UNCHANGED <<g_fn, g_plane, g_segment, g_planes, g_test, g_tri, g_arg, terrain>>
    /\ UNCHANGED <<playerVars, cameraVars, frameVars>>

CallAabbTopPlane ==
    /\ g_fn = "aabb_get_top_plane"
    /\ ~g_done
    /\ g_ret' = aabb_get_top_plane(g_arg.aabb)
    /\ g_done' = TRUE
    /\ UNCHANGED <<g_fn, g_plane, g_segment, g_planes, g_test, g_tri, g_arg, terrain>>
    /\ UNCHANGED <<playerVars, cameraVars, frameVars>>

CallAabbBottomPlane ==
    /\ g_fn = "aabb_get_bottom_plane"
    /\ ~g_done
    /\ g_ret' = aabb_get_bottom_plane(g_arg.aabb)
    /\ g_done' = TRUE
    /\ UNCHANGED <<g_fn, g_plane, g_segment, g_planes, g_test, g_tri, g_arg, terrain>>
    /\ UNCHANGED <<playerVars, cameraVars, frameVars>>

CallBoundedPlane ==
    /\ g_fn = "segment_hit_bounded_plane"
    /\ ~g_done
    /\ g_ret' = segment_hit_bounded_plane(g_plane, g_segment, g_arg.boundaries)
    /\ g_done' = TRUE
    /\ UNCHANGED <<g_fn, g_plane, g_segment, g_planes, g_test, g_tri, g_arg, terrain>>
    /\ UNCHANGED <<playerVars, cameraVars, frameVars>>

NextGeom ==
    \/ CallSegmentHitPlane
    \/ CallTallestCollision
    \/ CallPointInTriangle
    \/ CallClosestPoint
    \/ CallFromOzt
    \/ CallRayHitTerrain
    \/ CallAabbTopPlane
    \/ CallAabbBottomPlane
    \/ CallBoundedPlane
    \/ CallLength

SpecGeom == InitGeom /\ [][NextGeom]_vars

---------------------------------------------------------------------------
(* The program: frames of main() from the state after construction.  In    *)
(* Spec the user moves the stick, presses the escape button and leaves     *)
(* the free camera alone; in SpecCamera the user flies the camera and      *)
(* leaves the player alone.                                                *)

Init ==
    /\ InitFrame
    /\ xr_instance \in XrInstances
    /\ g_fn = "none"
    /\ g_plane = NoPlane
    /\ g_segment = NoSegment
    /\ g_planes = <<>>
    /\ g_test = <<0, 0>>
    /\ g_tri = NoTriangle
    /\ g_arg = NoArg
    /\ g_done = TRUE
    /\ g_ret = FALSE

Next ==
    \/ \E dt \in DeltaTimes, go_home \in BOOLEAN, jump \in BOOLEAN :
          BeginFrame(dt, go_home, jump)
    \/ Gravity
    \/ \E stick \in StickInputs : HandleInput(stick)
    \/ \E target \in NoCameraHolds, cursor \in NoCursorMoves :
          MoveCamera(EventsTo(keys_held, target) \o cursor)
    \/ Integrate
    \/ CollideTriangle
    \/ \E clicks \in ClickInputs : EndFrame(clicks)

Spec == Init /\ [][Next]_vars

---------------------------------------------------------------------------
(* The body of the terrain loop as a function of the triangle, the player  *)
(* and the camera: one pass for a player or a camera placed around a       *)
(* triangle.  The triangles are a floor, a floor whose normal has length   *)
(* 0.5, a wall and a slope of normal (0.8, 0, 0.6); the places are such    *)
(* that the distances and pushes are whole numbers of centimetres.         *)
BodyTriangles ==
    { Triangle(<<0, 0, 0>>, <<60, 0, 0>>, <<0, 60, 0>>, <<0, 0, NormalDen>>),
      Triangle(<<0, 0, 0>>, <<60, 0, 0>>, <<0, 60, 0>>, <<0, 0, 5>>),
      Triangle(<<0, 0, 0>>, <<0, 60, 0>>, <<0, 0, 60>>, <<NormalDen, 0, 0>>),
      Triangle(<<0, 0, 0>>, <<30, 0, -40>>, <<0, 60, 0>>, <<8, 0, 6>>) }

MaxBodyY == 1
BodyX == {-10, -9, -8, -6, 0, 5, 10, 30}
BodyY == { 20 * k : k \in 0..MaxBodyY }
BodyZ == {-10, -5, 0, 6, 8, 10, 12, 15, 20, 45}
BodyVelocities == { <<0, 0, -1>>, <<2, 0, 0>> }

(* reset_player_position for a Player anywhere: at the start or down the   *)
(* level, at rest or moving, with every number of jumps up to MAX_JUMPS.   *)
MaxResetPlaces == 1
ResetPlaces == { <<50 * k, -20 * k, -120 * k>> : k \in 0..MaxResetPlaces }
ResetSegments == { tracked_player_segment(p) : p \in ResetPlaces } \cup
                 { [p0 |-> Zero3, p1 |-> Zero3] }
Players ==
    [ tracking_position : ResetPlaces,
      tracking_velocity : { Zero3, <<2, 0, -7>> },
      tracked_segment : ResetSegments,
      last_tracked_segment : ResetSegments,
      movement_state : {"Falling", "Grounded"},
      radius : {PlayerRadius},
      jumps_remaining : 0..MAX_JUMPS,
      was_holding_jump : BOOLEAN ]

(* The gravity step on its own: both values of MoveState that main() names *)
(* and velocities up to MaxFallSpeed m/s either way, in steps of two.      *)
MaxFallSpeed == 14
MoveStates == {"Falling", "Grounded"}
GravityVelocities ==
    { <<x, 0, 2 * k>> : x \in {0, 2}, k \in (-(MaxFallSpeed \div 2))..(MaxFallSpeed \div 2) }
CameraX == {-40, -30, -24, 0, 10, 30}
CameraZ == {-5, 0, 18, 30, 32, 40, 45}

InitBody ==
    /\ InitFrame
    /\ xr_instance = "Some"
    /\ g_plane = NoPlane
    /\ g_segment = NoSegment
    /\ g_planes = <<>>
    /\ g_test = <<0, 0>>
    /\ g_tri = NoTriangle
    /\ g_done = FALSE
    /\ g_ret = FALSE
    /\ \/ /\ g_fn = "player"
          /\ g_arg \in [ triangle : BodyTriangles,
                         position : BodyX \X BodyY \X BodyZ,
                         velocity : BodyVelocities,
                         jumps : 0..MAX_JUMPS ]
       \/ /\ g_fn = "camera"
          /\ g_arg \in [ triangle : BodyTriangles,
                         camera_position : CameraX \X BodyY \X CameraZ,
                         camera_collision : BOOLEAN ]
       \/ /\ g_fn = "reset_player_position"
          /\ g_arg \in Players
       \/ /\ g_fn = "gravity"
          /\ g_arg \in [ movement_state : MoveStates,
                         velocity : GravityVelocities,
                         delta_time : DeltaTimes ]

(* "Check player capsule against triangle" for the player at g_arg.        *)
CallPlayerBody ==
    /\ g_fn = "player"
    /\ ~g_done
    /\ g_ret' = PlayerAfterTriangle([position |-> g_arg.position,
                                     velocity |-> g_arg.velocity,
                                     jumps |-> g_arg.jumps],
                                    tracked_player_segment(g_arg.position),
                                    g_arg.triangle)
    /\ g_done' = TRUE
    /\ UNCHANGED <<g_fn, g_plane, g_segment, g_planes, g_test, g_tri, g_arg, terrain>>
    /\ UNCHANGED <<playerVars, cameraVars, frameVars>>

(* "Check if this triangle is hitting the camera" for the camera at g_arg. *)
CallCameraBody ==
    /\ g_fn = "camera"
    /\ ~g_done
    /\ g_ret' = CameraAfterTriangle(g_arg.camera_collision, g_arg.camera_position,
                                    g_arg.triangle)
    /\ g_done' = TRUE
    /\ UNCHANGED <<g_fn, g_plane, g_segment, g_planes, g_test, g_tri, g_arg, terrain>>
    /\ UNCHANGED <<playerVars, cameraVars, frameVars>>

(* "Gravity the player" for the state, velocity and delta_time of g_arg.   *)
CallGravityStep ==
    /\ g_fn = "gravity"
    /\ ~g_done
    /\ g_ret' = GravityStep(g_arg.movement_state, g_arg.velocity, g_arg.delta_time)
    /\ g_done' = TRUE
    /\ UNCHANGED <<g_fn, g_plane, g_segment, g_planes, g_test, g_tri, g_arg, terrain>>
    /\ UNCHANGED <<playerVars, cameraVars, frameVars>>

(* reset_player_position(&mut player) for the Player of g_arg.             *)
CallResetPlayerPosition ==
    /\ g_fn = "reset_player_position"
    /\ ~g_done
    /\ g_ret' = PlayerAfterReset(g_arg)
    /\ g_done' = TRUE
    /\ UNCHANGED <<g_fn, g_plane, g_segment, g_planes, g_test, g_tri, g_arg, terrain>>
    /\ UNCHANGED <<playerVars, cameraVars, frameVars>>

NextBody ==
    \/ CallPlayerBody
    \/ CallCameraBody
    \/ CallGravityStep
    \/ CallResetPlayerPosition

SpecBody == InitBody /\ [][NextBody]_vars

(* The same program in the level of two coplanar floor triangles.          *)
InitFloors ==
    /\ InitLoop
    /\ xr_instance \in XrInstances
    /\ terrain = TwoFloors
    /\ g_fn = "none"
    /\ g_plane = NoPlane
    /\ g_segment = NoSegment
    /\ g_planes = <<>>
    /\ g_test = <<0, 0>>
    /\ g_tri = NoTriangle
    /\ g_arg = NoArg
    /\ g_done = TRUE
    /\ g_ret = FALSE

SpecFloors == InitFloors /\ [][Next]_vars

NextCamera ==
    \/ BeginFrame(1, FALSE, FALSE)
    \/ Gravity
    \/ \E stick \in NoStickInputs : HandleInput(stick)
    \/ \E target \in CameraHolds, cursor \in CursorMoves :
          MoveCamera(EventsTo(keys_held, target) \o cursor)
    \/ Integrate
    \/ CollideTriangle
    \/ \E clicks \in CollisionClicks : EndFrame(clicks)

SpecCamera == Init /\ [][NextCamera]_vars

---------------------------------------------------------------------------
(* Claims about segment_hit_plane.                                         *)

HitDen == Dot4(g_plane.normal, Sub4(g_segment.p1, g_segment.p0))

HitNum == Dot4(g_plane.normal, Sub4(g_plane.point, g_segment.p0))

(* 0 < t <= 1 for t = HitNum / HitDen, HitDen # 0.                         *)
HitInRange == HitNum * HitDen > 0 /\ HitNum * HitDen <= HitDen * HitDen

(* C1: with normal.(p1 - p0) # 0, segment_hit_plane returns Some(p)        *)
(* exactly when t = normal.(point - p0) / normal.(p1 - p0) has 0 < t <= 1, *)
(* and then p = (1 - t) p0 + t p1 and point_plane_distance(p, plane) = 0;  *)
(* otherwise it returns None.                                              *)
C1_HitIffInRangeAndOnPlane ==
    (g_fn = "segment_hit_plane" /\ g_done /\ HitDen # 0) =>
        /\ g_ret.some <=> HitInRange
        /\ g_ret.some =>
            /\ \A i \in 1 .. 3 :
                  g_ret.n[i] * HitDen =
                      g_ret.d * ((HitDen - HitNum) * g_segment.p0[i]
                                 + HitNum * g_segment.p1[i])
            /\ g_ret.n[4] = g_ret.d
            /\ point_plane_distance(g_ret, g_plane) = 0
        /\ ~g_ret.some => g_ret = NonePoint

(* A hit strictly inside the segment at t = 1/3.                           *)
C1_Witness ==
    /\ g_fn = "segment_hit_plane"
    /\ g_done
    /\ g_ret.some
    /\ 3 * HitNum = HitDen

(* C7: segment_hit_plane returns None whenever normal.(p1 - p0) = 0: for a *)
(* zero-length segment, also one on the plane, and for a segment parallel  *)
(* to or inside the plane.                                                 *)
C7_ZeroDenominatorIsNone ==
    (g_fn = "segment_hit_plane" /\ g_done /\ HitDen = 0) => g_ret = NonePoint

(* A zero-length segment whose point lies on the plane.                    *)
C7_Witness ==
    /\ g_fn = "segment_hit_plane"
    /\ g_done
    /\ g_segment.p0 = g_segment.p1
    /\ HitNum = 0
    /\ g_ret = NonePoint

---------------------------------------------------------------------------
(* Claims about segment_plane_tallest_collision.                           *)

TallHit(i) == segment_hit_plane(g_planes[i], g_segment)

TallHits == {i \in 1 .. Len(g_planes) : TallHit(i).some}

SamePoint(p, q) == \A i \in 1 .. 4 : p.n[i] * q.d = q.n[i] * p.d

HeightsDiffer ==
    \A i \in TallHits, j \in TallHits :
        i # j => TallHit(i).n[3] * TallHit(j).d # TallHit(j).n[3] * TallHit(i).d

Reversed(s) == [i \in 1 .. Len(s) |-> s[Len(s) + 1 - i]]

(* C5: segment_plane_tallest_collision returns None exactly when no plane  *)
(* is hit; otherwise the plane it returns has the intersection point of a  *)
(* hit plane of greatest Z as its point and that plane's normal, and when  *)
(* the heights differ the answer does not depend on the order of planes.   *)
C5_TallestCollision ==
    (g_fn = "segment_plane_tallest_collision" /\ g_done) =>
        /\ g_ret.some <=> TallHits # {}
        /\ ~g_ret.some => g_ret = NonePlane
        /\ g_ret.some =>
             \E i \in TallHits :
                /\ SamePoint(g_ret.point, TallHit(i))
                /\ g_ret.normal = g_planes[i].normal
                /\ \A j \in TallHits :
                      TallHit(j).n[3] * TallHit(i).d <= TallHit(i).n[3] * TallHit(j).d
        /\ HeightsDiffer =>
             segment_plane_tallest_collision(g_segment, Reversed(g_planes)) = g_ret

(* Floors at Z = 2 and Z = 5, in that order, both crossed: Z = 5 is kept.  *)
C5_Witness ==
    /\ g_fn = "segment_plane_tallest_collision"
    /\ g_done
    /\ Len(g_planes) = 2
    /\ g_planes[1] = Plane(<<0, 0, 2, 1>>, <<0, 0, 1, 0>>)
    /\ g_planes[2] = Plane(<<0, 0, 5, 1>>, <<0, 0, 1, 0>>)
    /\ TallHits = {1, 2}
    /\ g_ret.some
    /\ g_ret.point.n[3] = 5 * g_ret.point.d

---------------------------------------------------------------------------
(* Claims about point_in_triangle.                                         *)

TriangleIsDegenerate(t) == sign(t[1], t[2], t[3]) = 0

(* Three times the centroid is a + b + c; the vertices are multiples of 3. *)
Centroid(t) ==
    << (t[1][1] + t[2][1] + t[3][1]) \div 3, (t[1][2] + t[2][2] + t[3][2]) \div 3 >>

VertexOrders ==
    { <<1, 2, 3>>, <<2, 3, 1>>, <<3, 1, 2>>, <<3, 2, 1>>, <<2, 1, 3>>, <<1, 3, 2>> }

(* C6: point_in_triangle returns true for the centroid of every            *)
(* non-degenerate triangle, and for any test point it returns the same for *)
(* every ordering of the three vertices (rotations and reversed winding).  *)
C6_CentroidAndVertexOrder ==
    (g_done /\ g_fn = "point_in_triangle") =>
        /\ (~TriangleIsDegenerate(g_tri) /\ g_test = Centroid(g_tri)) => g_ret = TRUE
        /\ \A o \in VertexOrders :
              point_in_triangle(g_test, g_tri[o[1]], g_tri[o[2]], g_tri[o[3]]) = g_ret

(* The centroid of a triangle whose vertices wind the way that makes the   *)
(* three signs negative was found inside.                                  *)
C6_Witness ==
    /\ g_done
    /\ g_fn = "point_in_triangle"
    /\ sign(g_tri[1], g_tri[2], g_tri[3]) < 0
    /\ g_test = Centroid(g_tri)
    /\ g_ret = TRUE

---------------------------------------------------------------------------
(* Claims about the player's capsule and the terrain.                      *)

WallTriangle == get_terrain_triangle(Terrain, 0)

FloorTriangle == get_terrain_triangle(Terrain, 3)

(* The frame has run its terrain loop and nothing after it.                *)
EndOfTick == pc = "finish"

(* C2: after a tick in which the capsule made face contact with the floor  *)
(* (normal . up = 1), the player's vertical velocity is zero,              *)
(* jumps_remaining is MAX_JUMPS and movement_state is Grounded.            *)
C2_FloorContactGrounds ==
    (EndOfTick /\ obs.floor /\ Dot3(FloorTriangle.normal, Z_UP) = NormalDen) =>
        /\ tracking_velocity[3] = 0
        /\ jumps_remaining = MAX_JUMPS
        /\ movement_state = "Grounded"

(* The triangle of this pass of the terrain loop is a vertical wall and    *)
(* the capsule is in face contact with it.                                 *)
WallFaceContact ==
    /\ pc = "collide"
    /\ Dot3(get_terrain_triangle(Terrain, tri).normal, Z_UP) = 0
    /\ FaceContact(tracked_segment, get_terrain_triangle(Terrain, tri))

WallDistance ==
    projected_point_on_plane(CapsuleRef(tracked_segment, get_terrain_triangle(Terrain, tri)),
                             get_terrain_triangle(Terrain, tri).a,
                             get_terrain_triangle(Terrain, tri).normal).dist

(* Where the tick's integration put the player, before the terrain loop.   *)
IntegratedPosition == Add3(obs.pos0, Scale3(delta_time * CmPerStep, obs.vel))

(* C3 of the whole tick: after a tick in which the capsule was in face     *)
(* contact with a vertical wall, tracking_position is at the height the    *)
(* tick integrated to, and tracking_velocity and jumps_remaining are what  *)
(* they were when the terrain loop began.                                  *)
C3_TickKeepsHeightAndVelocity ==
    (EndOfTick /\ obs.wall) =>
        /\ tracking_position[3] = IntegratedPosition[3]
        /\ tracking_velocity = obs.vel
        /\ jumps_remaining = obs.jumps0

(* C3 of the wall's pass of the terrain loop: face contact with a vertical *)
(* wall moves tracking_position along the triangle normal by               *)
(* (radius - distance), to the centimetre, and not vertically, and leaves  *)
(* tracking_velocity and jumps_remaining as they were.                     *)
C3_WallContactPushesAlongNormal ==
    [][ WallFaceContact =>
          /\ \A i \in 1..3 :
                2 * Abs(NormalDen * WallDistance.d * (tracking_position'[i] - tracking_position[i])
                        - get_terrain_triangle(Terrain, tri).normal[i]
                            * (PlayerRadius * WallDistance.d - WallDistance.n))
                    <= NormalDen * WallDistance.d
          /\ tracking_position'[3] = tracking_position[3]
          /\ tracking_velocity' = tracking_velocity
          /\ jumps_remaining' = jumps_remaining ]_vars

(* The wall pushed the falling player back along x in this frame, before   *)
(* the floor was tried.                                                    *)
C3_Witness ==
    /\ pc = "collide"
    /\ tri = 3
    /\ obs.wall
    /\ tracking_position[1] < tracked_segment.p0[1]
    /\ tracking_position[3] = tracked_segment.p0[3]
    /\ tracking_velocity[3] < 0

(* C4: a player falling at (0, 0, -5) whose foot was above the floor at    *)
(* Z = 0, over the floor triangle, and is carried across Z = 0 by the      *)
(* tick, ends the tick with its foot at Z = 0, Grounded and with           *)
(* MAX_JUMPS jumps.                                                        *)
C4_LandingClampsToSurface ==
    ( /\ EndOfTick
      /\ obs.vel = <<0, 0, -5>>
      /\ obs.pos0[3] > 0
      /\ tracked_segment.p0[3] <= 0
      /\ point_in_triangle(<<tracked_segment.p0[1], tracked_segment.p0[2]>>,
                           <<FloorTriangle.a[1], FloorTriangle.a[2]>>,
                           <<FloorTriangle.b[1], FloorTriangle.b[2]>>,
                           <<FloorTriangle.c[1], FloorTriangle.c[2]>>)
      /\ ~obs.wall /\ ~obs.edge ) =>
        /\ tracking_position[3] = 0
        /\ movement_state = "Grounded"
        /\ jumps_remaining = MAX_JUMPS

(* C8: a jump triggered with jumps_remaining > 0 takes one jump away and   *)
(* makes the player Falling; with jumps_remaining = 0 it changes nothing;  *)
(* jumps_remaining is never below 0.                                       *)
C8_JumpTakesOneJump ==
    [][ (pc = "input" /\ jump_trigger) =>
          /\ jumps_remaining > 0 =>
                /\ jumps_remaining' = jumps_remaining - 1
                /\ movement_state' = "Falling"
          /\ jumps_remaining = 0 =>
                /\ jumps_remaining' = 0
                /\ tracking_velocity' = tracking_velocity
                /\ movement_state' = movement_state
          /\ jumps_remaining' >= 0 ]_vars

---------------------------------------------------------------------------
(* Claims about the free camera.                                           *)

Clamp(x, lo, hi) == IF x < lo THEN lo ELSE IF x > hi THEN hi ELSE x

(* The squared distance, in cm, from p to the nearest point of the box     *)
(* centred at the origin with half-extents (1, 1, 1).                      *)
BoxDistSq(p) ==
    DistSq(p, <<Clamp(p[1], -100, 100), Clamp(p[2], -100, 100), Clamp(p[3], -100, 100)>>)

(* C9: with a hit radius of 0.2, no tick ends with the camera closer than  *)
(* 0.2 to the box, and a tick that carried the camera along +X to within  *)
(* 0.2 of the box ends with it exactly 0.2 away, in the ticks that ran     *)
(* with camera collision on.                                               *)
C9_CameraKeptOutOfBox ==
    (EndOfTick /\ camera_collision) =>
        /\ BoxDistSq(camera_position) >= 20 * 20
        /\ ( /\ obs.cam1[1] > obs.cam0[1]
             /\ BoxDistSq(obs.cam1) < 20 * 20 ) => BoxDistSq(camera_position) = 20 * 20

(* C10: at the end of every tick that ran with camera collision on,        *)
(* camera_position.z is at least the camera hit radius.                    *)
C10_CameraFloorClamp ==
    (EndOfTick /\ camera_collision) => camera_position[3] >= CameraHitSphereRadius

---------------------------------------------------------------------------
(* closest_point_on_triangle.                                              *)

(* The foot of the perpendicular from q on the triangle's plane, and       *)
(* whether it is in the triangle, by barycentric coordinates.              *)
PerpendicularDistanceSq(q, triangle) ==
    Fraction(Dot3(Sub3(q, triangle.a), triangle.normal) * Dot3(Sub3(q, triangle.a), triangle.normal),
             NormalDen * NormalDen)

PerpendicularFoot(q, triangle) ==
    << q[1] - (Dot3(Sub3(q, triangle.a), triangle.normal) * triangle.normal[1]) \div (NormalDen * NormalDen),
       q[2] - (Dot3(Sub3(q, triangle.a), triangle.normal) * triangle.normal[2]) \div (NormalDen * NormalDen),
       q[3] - (Dot3(Sub3(q, triangle.a), triangle.normal) * triangle.normal[3]) \div (NormalDen * NormalDen) >>

FootInTriangle(q, triangle) ==
    LET v0 == Sub3(triangle.b, triangle.a)
        v1 == Sub3(triangle.c, triangle.a)
        v2 == Sub3(PerpendicularFoot(q, triangle), triangle.a)
        denom == Dot3(v0, v0) * Dot3(v1, v1) - Dot3(v0, v1) * Dot3(v0, v1)
        v == Dot3(v1, v1) * Dot3(v2, v0) - Dot3(v0, v1) * Dot3(v2, v1)
        w == Dot3(v0, v0) * Dot3(v2, v1) - Dot3(v0, v1) * Dot3(v2, v0)
    IN  v >= 0 /\ w >= 0 /\ v + w <= denom

ClosestPointReturned == g_fn = "closest_point_on_triangle" /\ g_done

(* C11: the distance closest_point_on_triangle returns is at most the      *)
(* distance from the query point to each of the three vertices, and when   *)
(* the query point's projection on the plane lies inside the triangle it   *)
(* is the perpendicular distance to the plane.  Distances are compared by  *)
(* their squares, which are exact.                                         *)
C11_ClosestPointDistance ==
    ClosestPointReturned =>
        /\ \A vertex \in {g_arg.triangle.a, g_arg.triangle.b, g_arg.triangle.c} :
              g_ret.dist_sq.n <= DistSq(g_arg.q, vertex) * g_ret.dist_sq.d
        /\ FootInTriangle(g_arg.q, g_arg.triangle) =>
              g_ret.dist_sq = PerpendicularDistanceSq(g_arg.q, g_arg.triangle)

(* A query point off the plane, whose foot is strictly inside the          *)
(* triangle, on none of its edges, has been answered.                      *)
C11_Witness ==
    /\ ClosestPointReturned
    /\ FootInTriangle(g_arg.q, g_arg.triangle)
    /\ g_ret.dist_sq = [n |-> 4, d |-> 1]
    /\ g_ret.point # Whole3(g_arg.q)
    /\ Cardinality({ i \in 1..3 : g_ret.point.n[i] > 0 }) = 2
    /\ g_ret.point.n[1] + g_ret.point.n[2] + g_ret.point.n[3] < TriangleLeg * g_ret.point.d

---------------------------------------------------------------------------
(* Terrain::from_ozt.                                                      *)

FromOztReturned == g_fn = "from_ozt" /\ g_done

(* The sizes in bytes the file declares for its three blocks.              *)
VertexBytes == Len(VertexBlock(g_arg.content))
IndexBytes == Len(IndexBlock(g_arg.content))
NormalBytes == Len(NormalBlock(g_arg.content))

(* C12: every Terrain from_ozt produces has a number of indices that is a  *)
(* multiple of 3 and one face normal per three indices; a file whose block *)
(* sizes break either rule yields no Terrain.                              *)
C12_IndicesInTriplesWithOneNormalEach ==
    FromOztReturned =>
        /\ g_ret.ok =>
              /\ Len(g_ret.indices) % 3 = 0
              /\ Len(g_ret.face_normals) = Len(g_ret.indices) \div 3
        /\ (\/ (IndexBytes \div 2) % 3 # 0
            \/ NormalBytes \div ByteStep # (IndexBytes \div 2) \div 3) => ~g_ret.ok

(* C13: from_ozt returns no Terrain holding an index that is not below the *)
(* number of vertices loaded.                                              *)
C13_IndicesBelowVertexCount ==
    FromOztReturned /\ g_ret.ok =>
        \A k \in 1..Len(g_ret.indices) : g_ret.indices[k] < Len(g_ret.vertices)

(* C14: from a well-formed file whose blocks are V, I and N bytes long,    *)
(* from_ozt returns V/12 vertices, I/2 indices and N/12 face normals, the  *)
(* values written little-endian in the file, in file order.                *)
C14_BlocksDecodedInOrder ==
    FromOztReturned /\ g_arg.content.damage = "none" =>
        /\ g_ret.ok
        /\ Len(g_ret.vertices) = VertexBytes \div ByteStep
        /\ Len(g_ret.indices) = IndexBytes \div 2
        /\ Len(g_ret.face_normals) = NormalBytes \div ByteStep
        /\ g_ret.vertices = g_arg.content.vertices
        /\ g_ret.indices = g_arg.content.indices
        /\ g_ret.face_normals = g_arg.content.face_normals

(* A whole file with two different vertices, three indices of which one    *)
(* needs both of its bytes, and a face normal has been loaded.             *)
C14_Witness ==
    /\ FromOztReturned
    /\ g_arg.content.damage = "none"
    /\ g_ret.ok
    /\ Len(g_ret.vertices) = 2
    /\ g_ret.vertices[1] # g_ret.vertices[2]
    /\ Len(g_ret.indices) = 3
    /\ 258 \in {g_ret.indices[k] : k \in 1..3}
    /\ Len(g_ret.face_normals) = 1
    /\ Len(g_arg.file) = 12 + 24 + 6 + 12

---------------------------------------------------------------------------
(* The terrain loop over two coplanar floor triangles.                     *)

(* The pass of the loop for the second triangle, taken after the first     *)
(* triangle's floor branch has put the foot of the capsule at touching     *)
(* distance, the radius, above the plane of both.                          *)
SecondFloorAfterFirstCorrected ==
    /\ terrain = TwoFloors
    /\ pc = "collide"
    /\ tri = 3
    /\ obs.floor
    /\ tracking_position[3] = PlayerRadius

(* C15: a tick visits the triangles once each in index order and tests     *)
(* each against the capsule as the earlier triangles have corrected it, so *)
(* that of two coplanar floor triangles under the capsule the second adds  *)
(* no correction once the first has moved the capsule to touching          *)
(* distance.                                                               *)
C15_SecondCoplanarFloorAddsNothing ==
    [][SecondFloorAfterFirstCorrected =>
          /\ tri' = tri + 3
          /\ tracking_position' = tracking_position]_vars

---------------------------------------------------------------------------
(* The writers of movement_state and of jumps_remaining.                   *)

(* C16: within a tick movement_state is written by the collision-          *)
(* resolution step only; gravity, stick and gadget input, integration and  *)
(* the camera leave it alone.                                              *)
C16_OnlyResolutionWritesMovementState == obs.state_writers \subseteq {"collide"}

(* C17: the resolution step sets jumps_remaining to MAX_JUMPS only in a    *)
(* tick in which movement_state changes from Falling to Grounded; in every *)
(* other tick it leaves jumps_remaining as it was.                         *)
C17_JumpsResetOnlyOnLanding ==
    EndOfTick =>
        /\ obs.jumps_reset =>
              /\ jumps_remaining = MAX_JUMPS
              /\ obs.state0 = "Falling"
              /\ movement_state = "Grounded"
        /\ ~obs.jumps_reset => jumps_remaining = obs.jumps0

---------------------------------------------------------------------------
(* ray_hit_terrain.                                                        *)

RayHitTerrainReturned == g_fn = "ray_hit_terrain" /\ g_done

Cross3(u, v) ==
    << u[2] * v[3] - u[3] * v[2], u[3] * v[1] - u[1] * v[3], u[1] * v[2] - u[2] * v[1] >>

(* The rational point n / d (d > 0) is in the plane of the triangle and    *)
(* inside or on the triangle, by barycentric coordinates.                  *)
InTriangle3(n, d, triangle) ==
    LET v0 == Sub3(triangle.b, triangle.a)
        v1 == Sub3(triangle.c, triangle.a)
        v2 == Sub3(<<n[1], n[2], n[3]>>, Scale3(d, triangle.a))
        denom == Dot3(v0, v0) * Dot3(v1, v1) - Dot3(v0, v1) * Dot3(v0, v1)
        v == Dot3(v1, v1) * Dot3(v2, v0) - Dot3(v0, v1) * Dot3(v2, v1)
        w == Dot3(v0, v0) * Dot3(v2, v1) - Dot3(v0, v1) * Dot3(v2, v0)
    IN  /\ Dot3(v2, Cross3(v0, v1)) = 0
        /\ v >= 0 /\ w >= 0 /\ v + w <= d * denom

TriangleOffsets(terr) == { 3 * k : k \in 0..((Len(terr.indices) \div 3) - 1) }

(* C18: every point ray_hit_terrain returns lies inside or on a triangle   *)
(* of the terrain, whatever the triangle's orientation.                    *)
C18_HitPointOnItsTriangle ==
    RayHitTerrainReturned /\ g_ret.some =>
        \E i \in TriangleOffsets(g_arg.terrain) :
            InTriangle3(g_ret.n, g_ret.d, get_terrain_triangle(g_arg.terrain, i))

(* What the ray does at the triangle at offset i, and whether that         *)
(* triangle qualifies: not parallel to the ray, its in-triangle test       *)
(* passed, and t > 0.                                                      *)
RayAt(i) ==
    RayHitTriangle(get_terrain_triangle(g_arg.terrain, i),
                   g_arg.ray_origin, g_arg.ray_direction)

Qualifies(i) == ~RayAt(i).parallel /\ RayAt(i).inside /\ RayAt(i).t.n > 0

Qualifying == { i \in TriangleOffsets(g_arg.terrain) : Qualifies(i) }

NotLater(s, t) == s.n * t.d <= t.n * s.d

(* C19: ray_hit_terrain returns the intersection with the smallest t > 0   *)
(* among the triangles that are not parallel to the ray and pass the       *)
(* in-triangle test, the one of the lower index on a tie, never one with   *)
(* t <= 0, and None exactly when no triangle qualifies.                    *)
C19_NearestQualifyingHit ==
    RayHitTerrainReturned =>
        /\ g_ret.some <=> Qualifying # {}
        /\ g_ret.some =>
              /\ g_ret.index \in Qualifying
              /\ g_ret.t.n > 0
              /\ g_ret.t = RayAt(g_ret.index).t
              /\ [n |-> g_ret.n, d |-> g_ret.d] = RayAt(g_ret.index).intersection
              /\ g_ret.n = Add4(Scale4(g_ret.d, g_arg.ray_origin),
                                Scale4(g_ret.t.n, g_arg.ray_direction))
              /\ \A j \in Qualifying :
                    /\ NotLater(g_ret.t, RayAt(j).t)
                    /\ NotLater(RayAt(j).t, g_ret.t) => g_ret.index <= j

(* Both triangles of the level qualify and the second, the nearer one, has *)
(* been returned; and two triangles tie and the first has been returned.   *)
C19_Witness ==
    /\ RayHitTerrainReturned
    /\ Qualifying = {0, 3}
    /\ g_ret.some
    /\ g_ret.index = 3
    /\ ~NotLater(RayAt(0).t, RayAt(3).t)

C19_TieWitness ==
    /\ RayHitTerrainReturned
    /\ Qualifying = {0, 3}
    /\ g_ret.index = 0
    /\ RayAt(0).t = RayAt(3).t
    /\ get_terrain_triangle(g_arg.terrain, 0) # get_terrain_triangle(g_arg.terrain, 3)

---------------------------------------------------------------------------
(* aabb_get_top_plane and aabb_get_bottom_plane.                           *)

BoundsOfBox(boundaries, aabb) ==
    /\ boundaries.xmin = aabb.position[1] - aabb.width
    /\ boundaries.xmax = aabb.position[1] + aabb.width
    /\ boundaries.ymin = aabb.position[2] - aabb.depth
    /\ boundaries.ymax = aabb.position[2] + aabb.depth

(* C20: aabb_get_top_plane returns the plane with normal +z at             *)
(* z = position.z + height and aabb_get_bottom_plane the plane with normal *)
(* -z at z = position.z - height, both with the bounds                     *)
(* [position.x - width, position.x + width] and                            *)
(* [position.y - depth, position.y + depth].                               *)
C20_TopAndBottomPlanes ==
    /\ (g_fn = "aabb_get_top_plane" /\ g_done) =>
          /\ g_ret.plane.normal = <<0, 0, 1, 0>>
          /\ g_ret.plane.point[3] = g_arg.aabb.position[3] + g_arg.aabb.height
          /\ BoundsOfBox(g_ret.boundaries, g_arg.aabb)
    /\ (g_fn = "aabb_get_bottom_plane" /\ g_done) =>
          /\ g_ret.plane.normal = <<0, 0, -1, 0>>
          /\ g_ret.plane.point[3] = g_arg.aabb.position[3] - g_arg.aabb.height
          /\ BoundsOfBox(g_ret.boundaries, g_arg.aabb)

---------------------------------------------------------------------------
(* segment_hit_bounded_plane.                                              *)

BoundedPlaneReturned == g_fn = "segment_hit_bounded_plane" /\ g_done

(* What segment_hit_plane answers for the same plane and segment, and      *)
(* where its point n/d lies with respect to the rectangle.                 *)
UnboundedHit == segment_hit_plane(g_plane, g_segment)

StrictlyOutside(point, boundaries) ==
    \/ point.n[1] < boundaries.xmin * point.d
    \/ point.n[1] > boundaries.xmax * point.d
    \/ point.n[2] < boundaries.ymin * point.d
    \/ point.n[2] > boundaries.ymax * point.d

OnABound(point, boundaries) ==
    /\ ~StrictlyOutside(point, boundaries)
    /\ \/ point.n[1] = boundaries.xmin * point.d
       \/ point.n[1] = boundaries.xmax * point.d
       \/ point.n[2] = boundaries.ymin * point.d
       \/ point.n[2] = boundaries.ymax * point.d

(* C21: segment_hit_bounded_plane returns what segment_hit_plane returns   *)
(* unless the intersection is strictly outside the bounds (x < xmin,       *)
(* x > xmax, y < ymin or y > ymax), so an intersection on a bound is       *)
(* returned; it never returns a point segment_hit_plane did not return.    *)
C21_RejectsOnlyStrictlyOutside ==
    BoundedPlaneReturned =>
        /\ g_ret.some => g_ret = UnboundedHit
        /\ g_ret = IF UnboundedHit.some /\ ~StrictlyOutside(UnboundedHit, g_arg.boundaries)
                   THEN UnboundedHit ELSE NonePoint

(* C21, amended: segment_hit_bounded_plane returns what segment_hit_plane  *)
(* returns when the intersection is strictly inside the bounds, and None   *)
(* when it is outside or lies on a bound; it never returns a point         *)
(* segment_hit_plane did not return.                                       *)
C21_KeepsOnlyStrictlyInside ==
    BoundedPlaneReturned =>
        /\ g_ret.some => g_ret = UnboundedHit
        /\ g_ret = IF /\ UnboundedHit.some
                      /\ ~StrictlyOutside(UnboundedHit, g_arg.boundaries)
                      /\ ~OnABound(UnboundedHit, g_arg.boundaries)
                   THEN UnboundedHit ELSE NonePoint

(* The segment crosses the plane at a point on a bound of the rectangle    *)
(* and None has come back.                                                 *)
C21_Witness ==
    /\ BoundedPlaneReturned
    /\ UnboundedHit.some
    /\ OnABound(UnboundedHit, g_arg.boundaries)
    /\ ~g_ret.some

---------------------------------------------------------------------------
(* One pass of the terrain loop.                                           *)

PlayerBodyReturned == g_fn = "player" /\ g_done

CameraBodyReturned == g_fn = "camera" /\ g_done

(* capsule_ref of the pass, the closest point of the triangle to it, and   *)
(* the closest point of the triangle to the camera.                        *)
BodyCapsuleRef == CapsuleRef(tracked_player_segment(g_arg.position), g_arg.triangle)

BodyBest == closest_point_on_triangle(BodyCapsuleRef, g_arg.triangle)

CameraBest == closest_point_on_triangle(Whole3(g_arg.camera_position), g_arg.triangle)

PlayerEdgePushed == PlayerBodyReturned /\ g_ret.branch \in {"edge", "edge_floor"}

(* The camera's pass took the else branch and moved the camera.            *)
CameraEdgePushed ==
    /\ CameraBodyReturned
    /\ g_ret # g_arg.camera_position
    /\ \E proj \in {projected_point_on_plane(Whole3(g_arg.camera_position), g_arg.triangle.a,
                                             g_arg.triangle.normal)} :
          ~(/\ robust_point_in_triangle(proj.point, g_arg.triangle)
            /\ Abs(proj.dist.n) < CameraHitSphereRadius * proj.dist.d)

(* C22: where the edge branch of the player or of the camera pushes, the   *)
(* closest point differs from the centre of the sphere, so that no zero    *)
(* vector is normalized and no NaN enters tracking_position or             *)
(* camera_position; a centre that is on the triangle is taken by the face  *)
(* branch and is not moved by the edge branch.                             *)
C22_EdgePushNeverNormalizesZero ==
    /\ PlayerBodyReturned => ~IsNaN(g_ret.position)
    /\ PlayerEdgePushed => BodyBest.point # BodyCapsuleRef /\ BodyBest.dist_sq.n > 0
    /\ (PlayerBodyReturned /\ BodyBest.dist_sq.n = 0) => g_ret.branch \in {"floor", "wall"}
    /\ CameraBodyReturned => ~IsNaN(g_ret)
    /\ CameraEdgePushed =>
          CameraBest.point # Whole3(g_arg.camera_position) /\ CameraBest.dist_sq.n > 0

(* The player's edge branch has pushed a capsule whose reference point is  *)
(* in the plane of the triangle, beside it.                                *)
C22_Witness ==
    /\ PlayerEdgePushed
    /\ g_ret.position # g_arg.position
    /\ Dot3(g_arg.triangle.normal,
            Sub3(BodyCapsuleRef.n, Scale3(BodyCapsuleRef.d, g_arg.triangle.a))) = 0

(* The sphere at capsule_ref is in contact with the face of the triangle:  *)
(* its centre is less than the radius from the plane, and the foot of the  *)
(* perpendicular is in the triangle.                                       *)
BodyFaceContact ==
    FaceContact(tracked_player_segment(g_arg.position), g_arg.triangle)

(* t = (normal . (a - capsule_ref) + radius) / (normal . up), as a         *)
(* fraction of whole numbers that is not reduced.                          *)
SnapNumerator ==
    Dot3(g_arg.triangle.normal,
         Sub3(Scale3(BodyCapsuleRef.d, g_arg.triangle.a), BodyCapsuleRef.n))
        + PlayerRadius * NormalDen * BodyCapsuleRef.d

SnapDenominator == Dot3(g_arg.triangle.normal, Z_UP) * BodyCapsuleRef.d

(* The change of tracking_position in z.                                   *)
SnapT == g_ret.position[3] - g_arg.position[3]

(* capsule_ref moved up by the t the floor branch computed.                *)
SnappedCapsuleRef ==
    Rational3(Add3(Scale3(g_ret.t.d, BodyCapsuleRef.n),
                   Scale3(g_ret.t.n * BodyCapsuleRef.d, Z_UP)),
              g_ret.t.d * BodyCapsuleRef.d)

(* C23: on face contact with a triangle whose normal . up is at least 0.5  *)
(* (0.5 included) the floor branch is taken, tracking_position changes in  *)
(* z only, by t = (normal . (a - capsule_ref) + radius) / (normal . up)    *)
(* to the centimetre, and capsule_ref + t * up has signed distance radius  *)
(* to the plane of the triangle, exactly.                                  *)
C23_FloorSnap ==
    (PlayerBodyReturned /\ BodyFaceContact
        /\ 2 * Dot3(g_arg.triangle.normal, Z_UP) >= NormalDen) =>
        /\ g_ret.branch = "floor"
        /\ g_ret.position[1] = g_arg.position[1]
        /\ g_ret.position[2] = g_arg.position[2]
        /\ g_ret.t.n * SnapDenominator = SnapNumerator * g_ret.t.d
        /\ 2 * Abs(SnapT * g_ret.t.d - g_ret.t.n) <= g_ret.t.d
        /\ projected_point_on_plane(SnappedCapsuleRef, g_arg.triangle.a,
                                    g_arg.triangle.normal).dist = [n |-> PlayerRadius, d |-> 1]

(* The capsule has been snapped up a slope of normal (0.8, 0, 0.6) by a    *)
(* t that is not a whole number of centimetres, from a reference point     *)
(* that is off the plane.                                                  *)
C23_Witness ==
    /\ PlayerBodyReturned
    /\ BodyFaceContact
    /\ g_arg.triangle.normal = <<8, 0, 6>>
    /\ g_ret.t.d > 1
    /\ g_ret.t.n # PlayerRadius * NormalDen * g_ret.t.d
    /\ SnapT > 0

(* A triangle whose normal . up is exactly 0.5 has snapped a capsule up    *)
(* from below its plane.                                                   *)
C23_AtThreshold ==
    /\ PlayerBodyReturned
    /\ BodyFaceContact
    /\ 2 * Dot3(g_arg.triangle.normal, Z_UP) = NormalDen
    /\ g_arg.position[3] < 0
    /\ SnapT > PlayerRadius

(* capsule_ref - best_point and the push applied to tracking_position.     *)
EdgeOffset == SubR(BodyCapsuleRef, BodyBest.point)

EdgePushApplied == Sub3(g_ret.position, g_arg.position)

(* capsule_ref after the push.                                             *)
PushedCapsuleRef(capsule_ref) ==
    Rational3(Add3(capsule_ref.n, Scale3(capsule_ref.d, EdgePushApplied)), capsule_ref.d)

(* The push has the direction of offset = capsule_ref - best_point and the *)
(* length radius - best_dist, each to the rounding of the stored position  *)
(* to the centimetre: it is on the side of capsule_ref, it is off the line *)
(* of the offset by at most a centimetre, and it brings capsule_ref to     *)
(* within 7/8 cm of the radius from the closest point (a rounding of half  *)
(* a centimetre on each axis is sqrt(3)/2 cm at most).                     *)
EdgePushIsDepthAlongOffset(capsule_ref, best_point, offset) ==
    /\ Dot3(EdgePushApplied, offset.n) >= 0
    /\ \E across \in {Cross3(EdgePushApplied, offset.n)} :
          \A i \in 1..3 : across[i] * across[i] <= Dot3(offset.n, offset.n)
    /\ \E pushed_sq \in {DistSqR(PushedCapsuleRef(capsule_ref), best_point)} :
          /\ ~FracLess(pushed_sq, Fraction((8 * PlayerRadius - 7) * (8 * PlayerRadius - 7), 64))
          /\ ~FracLess(Fraction((8 * PlayerRadius + 7) * (8 * PlayerRadius + 7), 64), pushed_sq)

(* dot(push_dir, up) >= 0.5, without the square root.                      *)
OffsetIsFloorLike(offset) ==
    offset.n[3] > 0 /\ 4 * offset.n[3] * offset.n[3] >= Dot3(offset.n, offset.n)

EdgeOffsetIsFloorLike == OffsetIsFloorLike(EdgeOffset)

(* C24: without face contact, a capsule whose reference point is less than *)
(* the radius from the triangle is pushed by (radius - best_dist) along    *)
(* the unit vector from the closest point to capsule_ref; the vertical     *)
(* velocity becomes zero and jumps_remaining MAX_JUMPS if that direction's *)
(* dot with up is at least 0.5, and velocity and jumps_remaining are       *)
(* unchanged otherwise; at best_dist >= radius nothing changes.            *)
C24_EdgeContact ==
    (PlayerBodyReturned /\ ~BodyFaceContact) =>
        \E capsule_ref \in {BodyCapsuleRef} :
        \E best \in {closest_point_on_triangle(capsule_ref, g_arg.triangle)} :
        \E offset \in {SubR(capsule_ref, best.point)} :
            IF best.dist_sq.n < PlayerRadius * PlayerRadius * best.dist_sq.d
            THEN /\ EdgePushIsDepthAlongOffset(capsule_ref, best.point, offset)
                 /\ IF OffsetIsFloorLike(offset)
                    THEN g_ret.velocity[3] = 0 /\ g_ret.jumps = MAX_JUMPS
                    ELSE g_ret.velocity = g_arg.velocity /\ g_ret.jumps = g_arg.jumps
            ELSE /\ g_ret.position = g_arg.position
                 /\ g_ret.velocity = g_arg.velocity
                 /\ g_ret.jumps = g_arg.jumps

(* A falling capsule with no jump left has been pushed off an edge by 5 cm *)
(* along (-0.6, 0, 0.8): its velocity is zero and its jumps are back.      *)
C24_Witness ==
    /\ PlayerBodyReturned
    /\ ~BodyFaceContact
    /\ EdgeOffset = [n |-> <<-6, 0, 8>>, d |-> 1]
    /\ g_arg.velocity = <<0, 0, -1>>
    /\ g_arg.jumps = 0
    /\ EdgePushApplied = <<-3, 0, 4>>
    /\ g_ret.velocity = Zero3
    /\ g_ret.jumps = MAX_JUMPS

(* A capsule whose reference point is exactly the radius from the nearest  *)
(* edge, reached without face contact: nothing is pushed.                  *)
C24_AtRadius ==
    /\ PlayerBodyReturned
    /\ ~BodyFaceContact
    /\ EdgeOffset = [n |-> <<-9, 0, 12>>, d |-> 1]
    /\ g_ret.branch = "none"

(* A capsule with one jump left has been pushed sideways off an edge by a  *)
(* push that is not floor-like: its velocity and its one jump are kept.    *)
C24_SidewaysKeepsJumps ==
    /\ PlayerEdgePushed
    /\ ~EdgeOffsetIsFloorLike
    /\ g_arg.jumps = 1
    /\ g_ret.jumps = 1
    /\ g_ret.velocity = g_arg.velocity
    /\ g_ret.position # g_arg.position

GravityStepReturned == g_fn = "gravity" /\ g_done

(* g * dt in m/s, for dt in 1/20 s.                                        *)
GravityDelta == (ACCELERATION_GRAVITY * g_arg.delta_time) \div 20

(* C25: the gravity step leaves tracking_velocity unchanged in a tick that *)
(* starts Grounded; otherwise velocity.z decreases by g * dt and is        *)
(* clamped from above only: it ends at most GRAVITY_VELOCITY_CAP, a        *)
(* downward speed is never reduced, and x and y are never changed.         *)
C25_GravityStep ==
    GravityStepReturned =>
        /\ g_ret[1] = g_arg.velocity[1]
        /\ g_ret[2] = g_arg.velocity[2]
        /\ IF g_arg.movement_state = "Grounded"
           THEN g_ret = g_arg.velocity
           ELSE /\ g_ret[3] <= GRAVITY_VELOCITY_CAP
                /\ g_ret[3] <= g_arg.velocity[3] - GravityDelta
                /\ g_arg.velocity[3] - GravityDelta <= GRAVITY_VELOCITY_CAP
                      => g_ret[3] = g_arg.velocity[3] - GravityDelta

(* A fall that was already faster than the cap has got faster.             *)
C25_Witness ==
    /\ GravityStepReturned
    /\ g_arg.movement_state = "Falling"
    /\ g_arg.velocity[3] < -GRAVITY_VELOCITY_CAP
    /\ g_ret[3] < g_arg.velocity[3]

(* An upward velocity above the cap has been clamped to it, and a Grounded *)
(* player's velocity has been left as it was.                              *)
C25_ClampedAbove ==
    /\ GravityStepReturned
    /\ g_arg.movement_state = "Falling"
    /\ g_arg.velocity[3] - GravityDelta > GRAVITY_VELOCITY_CAP
    /\ g_ret[3] = GRAVITY_VELOCITY_CAP

C25_GroundedUnchanged ==
    /\ GravityStepReturned
    /\ g_arg.movement_state = "Grounded"
    /\ g_arg.velocity[3] < 0
    /\ g_ret = g_arg.velocity

PointInTriangleReturned == g_fn = "point_in_triangle" /\ g_done

(* The test point as g_tri[1] + s (g_tri[2] - g_tri[1])                    *)
(* + t (g_tri[3] - g_tri[1]): s and t times the determinant, by Cramer's   *)
(* rule.                                                                   *)
Det2(u, v) == u[1] * v[2] - u[2] * v[1]

Minus2(u, v) == <<u[1] - v[1], u[2] - v[2]>>

BaryDet == Det2(Minus2(g_tri[2], g_tri[1]), Minus2(g_tri[3], g_tri[1]))

BaryS == Det2(Minus2(g_test, g_tri[1]), Minus2(g_tri[3], g_tri[1]))

BaryT == Det2(Minus2(g_tri[2], g_tri[1]), Minus2(g_test, g_tri[1]))

(* s >= 0, t >= 0 and s + t <= 1: the closed triangle.                     *)
InClosedTriangle ==
    IF BaryDet > 0
    THEN BaryS >= 0 /\ BaryT >= 0 /\ BaryS + BaryT <= BaryDet
    ELSE BaryS <= 0 /\ BaryT <= 0 /\ BaryS + BaryT >= BaryDet

(* C26: for a non-degenerate triangle of either winding point_in_triangle  *)
(* is true exactly for the points of the closed triangle: the inside, the  *)
(* edges and the vertices, and no point outside.                           *)
C26_ClosedTriangle ==
    (PointInTriangleReturned /\ BaryDet # 0) => (g_ret = InClosedTriangle)

(* A point of an edge, between its vertices, of a triangle of negative     *)
(* determinant was found inside.                                           *)
C26_Witness ==
    /\ PointInTriangleReturned
    /\ BaryDet < 0
    /\ BaryS = 0
    /\ BaryT < 0
    /\ BaryT > BaryDet
    /\ g_ret = TRUE

ResetReturned == g_fn = "reset_player_position" /\ g_done

(* C27: from any player state reset_player_position leaves                 *)
(* tracking_position (0, 0, 3), zero velocity, tracked_segment and         *)
(* last_tracked_segment zero, jumps_remaining = MAX_JUMPS and              *)
(* movement_state Falling, with radius and was_holding_jump as they were;  *)
(* a second reset changes nothing.                                         *)
C27_ResetPlayerPosition ==
    ResetReturned =>
        /\ g_ret.tracking_position = <<0, 0, 300>>
        /\ g_ret.tracking_velocity = <<0, 0, 0>>
        /\ g_ret.tracked_segment = [p0 |-> <<0, 0, 0>>, p1 |-> <<0, 0, 0>>]
        /\ g_ret.last_tracked_segment = [p0 |-> <<0, 0, 0>>, p1 |-> <<0, 0, 0>>]
        /\ g_ret.jumps_remaining = MAX_JUMPS
        /\ g_ret.movement_state = "Falling"
        /\ g_ret.radius = g_arg.radius
        /\ g_ret.was_holding_jump = g_arg.was_holding_jump
        /\ PlayerAfterReset(g_ret) = g_ret

(* A moving player down the level, with no jumps left and the jump held,   *)
(* has been reset.                                                         *)
C27_Witness ==
    /\ ResetReturned
    /\ g_arg.tracking_position # Zero3
    /\ g_arg.tracking_velocity # Zero3
    /\ g_arg.tracked_segment.p1 # Zero3
    /\ g_arg.last_tracked_segment.p1 # Zero3
    /\ g_arg.jumps_remaining = 0
    /\ g_arg.movement_state = "Grounded"
    /\ g_arg.was_holding_jump
    /\ g_ret.was_holding_jump

(* normal . (p - plane.point): zero on the plane, of opposite signs on its *)
(* two sides.                                                              *)
SideOfPlane(p) == Dot4(g_plane.normal, Sub4(p, g_plane.point))

(* The motion segment that was tested ends on the plane and does not start *)
(* on it.                                                                  *)
EndsOnPlane ==
    /\ g_fn = "segment_hit_plane"
    /\ g_done
    /\ SideOfPlane(g_segment.p1) = 0
    /\ SideOfPlane(g_segment.p0) # 0

(* C28: of two consecutive motion segments (p0, p1) and (p1, p2) and a     *)
(* plane that contains p1 and not p0, segment_hit_plane reports the        *)
(* crossing for the first, at t = 1 and at p1, and reports nothing for the *)
(* second, wherever p2 is: a point that starts on the plane and moves      *)
(* through it is not reported.                                             *)
C28_SharedEndpointReportedOnce ==
    EndsOnPlane =>
        /\ g_ret.some
        /\ HitNum = HitDen
        /\ \A i \in 1..3 : g_ret.n[i] = g_ret.d * g_segment.p1[i]
        /\ \A p2 \in Points :
              segment_hit_plane(g_plane, LineSegment(g_segment.p1, p2)) = NonePoint

(* The first segment has come to the plane, and the point can go on to the *)
(* other side of it.                                                       *)
C28_Witness ==
    /\ EndsOnPlane
    /\ g_ret.some
    /\ \E p2 \in Points : SideOfPlane(p2) * SideOfPlane(g_segment.p0) < 0

(* C29: with an OpenXR instance, the listener velocity sent at the end of  *)
(* a tick is the foot position of this tick (tracked_segment.p0) minus the *)
(* foot position of the tick before, which last_tracked_segment holds      *)
(* while the tick runs.                                                    *)
C29_ListenerVelocityIsFootMotion ==
    [][(pc = "finish" /\ xr_instance = "Some") =>
          listener_velocity' = Sub3(tracked_segment.p0, last_tracked_segment.p0)]_vars

LengthReturned == g_fn = "length" /\ g_done

SegmentDelta == Sub4(g_segment.p1, g_segment.p0)

(* C30: LineSegment::length is the Euclidean length of the segment in      *)
(* three dimensions: its square is dx^2 + dy^2 + dz^2, and it is zero only *)
(* if p0 and p1 have the same x, y and z.                                  *)
C30_EuclideanLength ==
    LengthReturned =>
        /\ g_ret.squared = SegmentDelta[1] * SegmentDelta[1]
                           + SegmentDelta[2] * SegmentDelta[2]
                           + SegmentDelta[3] * SegmentDelta[3]
        /\ g_ret.squared = 0 =>
              SegmentDelta[1] = 0 /\ SegmentDelta[2] = 0 /\ SegmentDelta[3] = 0

====
